---- MODULE Spec2Model ----
(***************************************************************************)
(* Model of the PRD -> specification extraction pipeline of project-gen:   *)
(* the requirement extractor, the rule extractor, the entity/workflow      *)
(* enricher and the model-assisted spec synthesis retry loop.              *)
(*                                                                         *)
(* Texts are TLC strings processed character by character (Len, SubSeq     *)
(* and \o work on strings in TLC), so lower-casing, stripping and the      *)
(* regular expressions are computed, not tabulated.  JSON values coming    *)
(* from the language model are tagged records [t |-> type, v |-> value].   *)
(***************************************************************************)
EXTENDS Integers, Sequences, FiniteSets, TLC

(***************************************************************************)
(* Bounds of the model                                                     *)
(***************************************************************************)
MaxLines == 2      \* lines of a PRD text
MaxItems == 2      \* elements of a JSON array answered by the model
MaxEntities == 2   \* entities of a list handed to the entity resolver
MaxChars == 3      \* characters of a string handed to the sanitizer
MaxPieces == 2     \* pieces of a text handed to the block extractor
MaxPlanned == 4    \* entities of a specification handed to the file planner
MaxRuns == 3       \* runs of the pipeline on one PRD path

(***************************************************************************)
(* Characters and strings (Python str methods used by the agents)          *)
(***************************************************************************)
UpperAlpha == "ABCDEFGHIJKLMNOPQRSTUVWXYZ"
LowerAlpha == "abcdefghijklmnopqrstuvwxyz"
DigitChars == "0123456789"

CharsOf(s) == { SubSeq(s, i, i) : i \in 1..Len(s) }

UpperSet == CharsOf(UpperAlpha)
LowerSet == CharsOf(LowerAlpha)
DigitSet == CharsOf(DigitChars)
LetterSet == UpperSet \cup LowerSet
WordSet == LetterSet \cup DigitSet \cup {"_"}
SpaceSet == {" ", "\t", "\n"}

LowerMap == [c \in UpperSet |->
               LET i == CHOOSE k \in 1..26 : SubSeq(UpperAlpha, k, k) = c
               IN  SubSeq(LowerAlpha, i, i)]
UpperMap == [c \in LowerSet |->
               LET i == CHOOSE k \in 1..26 : SubSeq(LowerAlpha, k, k) = c
               IN  SubSeq(UpperAlpha, i, i)]

\* s[i-1] in Python terms; "" outside the string
Ch(s, i) == IF i >= 1 /\ i <= Len(s) THEN SubSeq(s, i, i) ELSE ""

\* s[i-1:] in Python terms
From(s, i) == SubSeq(s, i, Len(s))

\* str.lower(), computed by halves to keep the recursion shallow
RECURSIVE Lower(_)
Lower(s) ==
  IF s = "" THEN ""
  ELSE IF Len(s) = 1 THEN (IF s \in UpperSet THEN LowerMap[s] ELSE s)
  ELSE LET h == Len(s) \div 2
       IN  Lower(SubSeq(s, 1, h)) \o Lower(SubSeq(s, h + 1, Len(s)))

\* str.capitalize(): first character upper-cased, the rest lower-cased
Capitalize(s) ==
  IF s = "" THEN ""
  ELSE LET c == SubSeq(s, 1, 1)
       IN  (IF c \in LowerSet THEN UpperMap[c] ELSE c) \o Lower(From(s, 2))

\* first index in the set S of positions, or 0
FirstIdx(S) == IF S = {} THEN 0 ELSE CHOOSE i \in S : \A j \in S : i <= j
LastIdx(S) == IF S = {} THEN 0 ELSE CHOOSE i \in S : \A j \in S : j <= i

\* last index of the maximal run of characters of S that starts at i
\* (i - 1 when s[i] is not in S)
RunEnd(s, i, S) ==
  IF i > Len(s) THEN i - 1
  ELSE CHOOSE e \in (i - 1)..Len(s) :
         Ch(s, e + 1) \notin S /\ \A k \in i..e : Ch(s, k) \in S

LStrip(s) == From(s, RunEnd(s, 1, SpaceSet) + 1)
RStrip(s) == SubSeq(s, 1, LastIdx({ i \in 1..Len(s) : SubSeq(s, i, i) \notin SpaceSet }))

\* str.strip()
Strip(s) == RStrip(LStrip(s))

\* s.startswith(w, i-1)
StartsWithAt(s, i, w) ==
  i >= 1 /\ i + Len(w) - 1 <= Len(s) /\ SubSeq(s, i, i + Len(w) - 1) = w

\* w in s
Contains(s, w) == \E i \in 1..(Len(s) - Len(w) + 1) : StartsWithAt(s, i, w)

\* regex \b between s[i-1] and s[i] (1-based: before character i)
WordBoundary(s, i) == (Ch(s, i - 1) \in WordSet) # (Ch(s, i) \in WordSet)

\* str.split on the separator characters seps, from position start
RECURSIVE SplitOn(_, _, _)
SplitOn(s, seps, start) ==
  LET nxt == FirstIdx({ i \in start..Len(s) : SubSeq(s, i, i) \in seps })
  IN  IF nxt = 0 THEN << From(s, start) >>
      ELSE << SubSeq(s, start, nxt - 1) >> \o SplitOn(s, seps, nxt + 1)

\* str.splitlines() for texts whose only line separator is "\n": no empty
\* last line after a final newline
splitlines(s) ==
  LET ps == SplitOn(s, {"\n"}, 1)
  IN  IF ps[Len(ps)] = "" THEN SubSeq(ps, 1, Len(ps) - 1) ELSE ps

NonEmpty(x) == x # ""

\* the pieces of s between separators, stripped, empty pieces dropped
SplitStrip(s, seps) ==
  LET ps == SplitOn(s, seps, 1)
  IN  SelectSeq([k \in 1..Len(ps) |-> Strip(ps[k])], NonEmpty)

\* the elements of a finite set of integers in increasing order
RECURSIVE Ascending(_)
Ascending(S) ==
  IF S = {} THEN << >> ELSE << FirstIdx(S) >> \o Ascending(S \ {FirstIdx(S)})

\* decimal digits of a natural number
RECURSIVE Decimal(_)
Decimal(n) ==
  IF n < 10 THEN SubSeq(DigitChars, n + 1, n + 1)
  ELSE Decimal(n \div 10) \o SubSeq(DigitChars, (n % 10) + 1, (n % 10) + 1)

\* f"{n:04d}": zero-padded to at least four digits
RECURSIVE ZeroPad(_, _)
ZeroPad(s, w) == IF Len(s) >= w THEN s ELSE ZeroPad("0" \o s, w)

Format04d(n) == ZeroPad(Decimal(n), 4)

\* re.match(r"^<prefix>\d{4}$", s): "$" also matches before a final newline
MatchesIdPattern(prefix, s) ==
  LET n == Len(prefix)
      core == IF Len(s) = n + 5 /\ Ch(s, n + 5) = "\n" THEN SubSeq(s, 1, n + 4) ELSE s
  IN  /\ Len(core) = n + 4
      /\ SubSeq(core, 1, n) = prefix
      /\ \A i \in (n + 1)..(n + 4) : Ch(core, i) \in DigitSet

(***************************************************************************)
(* JSON values answered by the language model                              *)
(***************************************************************************)
JStr(s)  == [t |-> "str", v |-> s]
JNum(n)  == [t |-> "num", v |-> n]
JNull    == [t |-> "null"]
JList(q) == [t |-> "list", v |-> q]
JObj(f)  == [t |-> "obj", v |-> f]
JBool(b) == [t |-> "bool", v |-> b]

IsStr(x)  == x.t = "str"
IsList(x) == x.t = "list"
IsObj(x)  == x.t = "obj"

\* Python truthiness of a JSON value
Truthy(x) ==
  CASE x.t = "null" -> FALSE
    [] x.t = "str"  -> x.v # ""
    [] x.t = "num"  -> x.v # 0
    [] x.t = "bool" -> x.v
    [] x.t = "list" -> x.v # << >>
    [] x.t = "obj"  -> DOMAIN x.v # {}
    [] OTHER        -> TRUE

\* a or b
Or(a, b) == IF Truthy(a) THEN a ELSE b

\* d.get(k) of a mapping (None when absent) and d.get(k, dflt)
Get(d, k) == IF k \in DOMAIN d THEN d[k] ELSE JNull
GetOr(d, k, dflt) == IF k \in DOMAIN d THEN d[k] ELSE dflt


(***************************************************************************)
(* Requirement extractor (agents/requirements_agent.py)                    *)
(***************************************************************************)
HealthText == "API exposes GET /health returning 200 with {status:'ok'}"
HealthAssertion == "GET /health == 200 && body.status == 'ok'"

req_mk_id(n) == "R-" \o Format04d(n)

\* the alternation (req|requirement|must) of TRIGGERS[0], in its order
TRIGGERS == << "req", "requirement", "must" >>

\* re.match(r"(?i)\s*(req|requirement|must)[:\-]\s*(.+)", s) for a stripped
\* line s: ok, and m.group(2).strip()
trigger_at(s, l, w) ==
  /\ StartsWithAt(l, 1, w)
  /\ Ch(l, Len(w) + 1) \in {":", "-"}
  /\ From(s, Len(w) + 2) # ""

\* the match when alternative k is the first that matches (0: none does)
trigger_group(s, k) ==
  IF k = 0 THEN [ok |-> FALSE, text |-> ""]
  ELSE [ok |-> TRUE, text |-> Strip(From(s, Len(TRIGGERS[k]) + 2))]

trigger_search(s, l) ==
  trigger_group(s, FirstIdx({ k \in 1..Len(TRIGGERS) : trigger_at(s, l, TRIGGERS[k]) }))

trigger_match(s) == trigger_search(s, Lower(s))

Requirement(id, text, component, priority, acceptance) ==
  [id |-> id, text |-> text, component |-> component,
   priority |-> priority, acceptance |-> acceptance]

\* what one line adds to reqs (line 15), m being the match on the line
line_requirements(m, n) ==
  IF m.ok THEN << Requirement(JStr(req_mk_id(n)), m.text, JStr("any"), JStr("P2"), << >>) >>
  ELSE << >>

\* the loop of lines 11-16: reqs is the list built so far, and the counter
\* n is one more than its length
RECURSIVE heuristic_lines(_, _)
heuristic_lines(lines, reqs) ==
  IF lines = << >> THEN reqs
  ELSE heuristic_lines(Tail(lines),
         reqs \o line_requirements(trigger_match(Strip(Head(lines))), Len(reqs) + 1))

\* lines 17-19: the default health requirement
default_health(reqs) ==
  Append(reqs, Requirement(JStr(req_mk_id(Len(reqs) + 1)), HealthText,
                           JStr("backend"), JStr("P0"), << JStr(HealthAssertion) >>))

heuristic_requirements(prd) == default_health(heuristic_lines(splitlines(prd), << >>))

\* What one call of the language model does: it raises, answers text that
\* json.loads rejects, or answers text that parses to the JSON value data.
Raises == [kind |-> "raise"]
Unparsable == [kind |-> "unparsable"]
Parsed(data) == [kind |-> "json", data |-> data]
NoCall == [kind |-> "nocall"]

\* the loop of _llm_extract over the parsed array; c counts kept entries
RECURSIVE req_llm_items(_, _)
req_llm_items(items, c) ==
  IF items = << >> THEN [raised |-> FALSE, out |-> << >>]
  ELSE LET d == Head(items)
       IN  IF ~IsObj(d) \/ ~Truthy(Get(d.v, "text"))
           THEN req_llm_items(Tail(items), c)
           ELSE IF ~IsStr(d.v["text"])
                THEN [raised |-> TRUE, out |-> << >>]      \* d["text"].strip()
                ELSE LET acc  == Get(d.v, "acceptance")
                         r    == Requirement(GetOr(d.v, "id", JStr(req_mk_id(c))),
                                             Strip(d.v["text"].v),
                                             GetOr(d.v, "component", JStr("any")),
                                             GetOr(d.v, "priority", JStr("P2")),
                                             IF IsList(acc) THEN acc.v ELSE << >>)
                         rest == req_llm_items(Tail(items), c + 1)
                     IN  IF rest.raised THEN rest
                         ELSE [raised |-> FALSE, out |-> << r >> \o rest.out]

req_llm_extract(o) ==
  CASE o.kind = "raise"      -> [raised |-> TRUE, out |-> << >>]
    [] o.kind = "unparsable" -> [raised |-> TRUE, out |-> << >>]
    [] OTHER -> IF IsList(o.data) THEN req_llm_items(o.data.v, 1)
                ELSE [raised |-> FALSE, out |-> << >>]

\* lines 54-63 of extract_requirements: the list reqs before post-processing
\* candidates without the except branch of lines 59-61
candidates_unguarded(llm, r, heuristic) ==
  IF llm /\ r.out # << >> THEN r.out ELSE IF llm /\ r.raised THEN << >> ELSE heuristic

candidates(llm, r, heuristic) ==
  IF llm /\ ~r.raised /\ r.out # << >> THEN r.out ELSE heuristic

req_candidates(prd, llm, o) ==
  candidates(llm, req_llm_extract(o), heuristic_requirements(prd))

\* a deduplication keyed on the text as written, not lower-cased
RECURSIVE dedup_exact(_, _)
dedup_exact(reqs, seen) ==
  IF reqs = << >> THEN << >>
  ELSE IF Head(reqs).text \in seen THEN dedup_exact(Tail(reqs), seen)
       ELSE << Head(reqs) >> \o dedup_exact(Tail(reqs), seen \cup {Head(reqs).text})

\* lines 66-70: keep the first record of every lower-cased text
RECURSIVE dedup_reqs(_, _)
dedup_reqs(reqs, seen) ==
  IF reqs = << >> THEN << >>
  ELSE LET k == Lower(Head(reqs).text)
       IN  IF k \in seen THEN dedup_reqs(Tail(reqs), seen)
           ELSE << Head(reqs) >> \o dedup_reqs(Tail(reqs), seen \cup {k})

\* lines 71-76: an id that does not match ^R-\d{4}$ becomes _mk_id(position)
renumber_req(r, i) ==
  IF MatchesIdPattern("R-", r.id.v) THEN r ELSE [r EXCEPT !.id = JStr(req_mk_id(i))]

\* lines 71-77 on the deduplicated list out
renumbered(reqs, out) ==
  IF \E i \in 1..Len(out) : ~IsStr(out[i].id)
  THEN [raised |-> TRUE, reqs |-> reqs, out |-> << >>]   \* re.match on a non-string
  ELSE [raised |-> FALSE, reqs |-> reqs,
        out |-> [i \in 1..Len(out) |-> renumber_req(out[i], i)]]

\* lines 65-77 on the list reqs
post_process(reqs) == renumbered(reqs, dedup_reqs(reqs, {}))

\* extract_requirements(prd_text) under USE_LLM = llm, the model call doing o:
\* whether it raised, the list reqs of line 64 and the list returned
extract_requirements(prd, llm, o) == post_process(req_candidates(prd, llm, o))

(***************************************************************************)
(* Rule extractor (agents/rules_agent.py)                                  *)
(***************************************************************************)
rule_mk_id(n) == "BR-" \o Format04d(n)

\* \bw\b matched at position i
WordAt(l, i, w) ==
  StartsWithAt(l, i, w) /\ WordBoundary(l, i) /\ WordBoundary(l, i + Len(w))

\* positions where \b([A-Za-z_][A-Za-z0-9_]*)\b can match: starts of words
\* that begin with a letter or "_"; the group is the whole word
IdentStarts(s) ==
  { i \in 1..Len(s) : Ch(s, i) \in LetterSet \cup {"_"} /\ Ch(s, i - 1) \notin WordSet }

IdentAt(s, i) == SubSeq(s, i, RunEnd(s, i, WordSet))

\* _PAT_NEG.search(s)
NEG_MODALS == {"must", "cannot", "can't", "should not", "must not"}

neg_tail_at(l, j) ==
  \/ WordAt(l, j, "negative")
  \/ /\ WordBoundary(l, j)
     /\ StartsWithAt(l, j, "less than")
     /\ LET k == RunEnd(l, j + 9, SpaceSet) + 1
        IN  Ch(l, k) = "0" /\ WordBoundary(l, k + 1)

PAT_NEG(s) ==
  LET l == Lower(s)
  IN  \E i \in 1..Len(l) : \E m \in NEG_MODALS :
        /\ WordAt(l, i, m)
        /\ \E j \in (i + Len(m))..Len(l) : neg_tail_at(l, j)

\* _PAT_ENUM.search(s): ok, group(1) and group(3)
ENUM_FIELDS == {"status", "state"}
ENUM_PHRASES == {"can be", "allowed", "one of"}
EnumOptionChars == LetterSet \cup SpaceSet \cup {",", "|"}

\* the maximal run of characters of S that starts at k
RunFrom(s, k, S) == SubSeq(s, k, RunEnd(s, k, S))

\* [: ]+([A-Za-z,\s|]+) from index e: the start of group 3 (0: no match);
\* the greedy [: ]+ gives characters back until group 3 can start
enum_tail(s, e) ==
  LastIdx({ k \in (e + 1)..(RunEnd(s, e, {":", " "}) + 1) : Ch(s, k) \in EnumOptionChars })

\* \b(can be|allowed|one of)\b[: ]+([A-Za-z,\s|]+) at j: the start of group 3
enum_tail_at(s, l, j) ==
  LastIdx({ enum_tail(s, j + Len(p)) : p \in { p \in ENUM_PHRASES : WordAt(l, j, p) } })

\* starts of a phrase (can be|allowed|one of) after which the tail matches
enum_phrase_starts(s, l) == { j \in 1..Len(l) : enum_tail_at(s, l, j) # 0 }

\* starts of \b(status|state)\b with such a phrase after it
enum_field_starts(l, js) ==
  { i \in 1..Len(l) : /\ \E w \in ENUM_FIELDS : WordAt(l, i, w)
                      /\ \E j \in js : j > RunEnd(l, i, WordSet) }

\* the groups of the match whose field starts at i and whose phrase starts at j
enum_groups(s, l, i, j) ==
  IF i = 0 THEN [ok |-> FALSE]
  ELSE [ok |-> TRUE, g1 |-> IdentAt(s, i),
        g3 |-> RunFrom(s, enum_tail_at(s, l, j), EnumOptionChars)]

\* the leftmost field; .* is greedy, so the last phrase after it wins
enum_search(s, l, js, i) ==
  enum_groups(s, l, i, LastIdx({ j \in js : j > RunEnd(l, i, WordSet) }))

enum_match(s, l, js) == enum_search(s, l, js, FirstIdx(enum_field_starts(l, js)))

PAT_ENUM(s) == enum_match(s, Lower(s), enum_phrase_starts(s, Lower(s)))

\* the comparison alternation of _PAT_CMP, in its order
CMP_PHRASES ==
  << "at least", "no less than", "greater than or equal to", ">=", "more than",
     "greater than", ">", "less than or equal to", "<=", "at most", "no more than",
     "not exceed", "cannot exceed", "must not exceed", "should not exceed",
     "less than", "<" >>

\* (phrase)\s*(\d+(?:\.\d+)?) at position j
cmp_at(l, j, p) ==
  StartsWithAt(l, j, p) /\ Ch(l, RunEnd(l, j + Len(p), SpaceSet) + 1) \in DigitSet

\* the first alternative of the alternation that matches at j (0: none)
cmp_phrase_at(l, j) == FirstIdx({ n \in 1..Len(CMP_PHRASES) : cmp_at(l, j, CMP_PHRASES[n]) })

\* \d+(?:\.\d+)? starting at the digit at k, whose integer part ends at d
number_from(l, k, d) ==
  SubSeq(l, k, IF Ch(l, d + 1) = "." /\ Ch(l, d + 2) \in DigitSet
               THEN RunEnd(l, d + 2, DigitSet) ELSE d)

\* groups 2 and 3 of the match of phrase p at j, the number starting at k
cmp_groups(s, i, j, p, k) ==
  [ok |-> TRUE, field |-> IdentAt(s, i), comp |-> SubSeq(s, j, j + Len(p) - 1),
   val |-> number_from(s, k, RunEnd(s, k, DigitSet))]

cmp_phrase(s, l, i, j, p) == cmp_groups(s, i, j, p, RunEnd(l, j + Len(p), SpaceSet) + 1)

cmp_search(s, l, i, j) ==
  IF i = 0 THEN [ok |-> FALSE] ELSE cmp_phrase(s, l, i, j, CMP_PHRASES[cmp_phrase_at(l, j)])

\* the first phrase after the word that starts at i
cmp_first(s, l, js, i) == cmp_search(s, l, i, FirstIdx({ j \in js : j > RunEnd(s, i, WordSet) }))

\* the words that end before position last
words_ending_before(s, last) == { i \in IdentStarts(s) : last > RunEnd(s, i, WordSet) }

\* the words with a start of js after them
words_before(s, js) == words_ending_before(s, LastIdx(js))

cmp_match(s, l, js) == cmp_first(s, l, js, FirstIdx(words_before(s, js)))

\* _PAT_CMP.search(s): ok, field = group(1), comp = group(2), val = group(3).
\* The optional modal group and the lazy [^\n]*? reduce to: the leftmost
\* word with a phrase+number after it, and the first such phrase.
cmp_starts(l) == { j \in 1..Len(l) : cmp_phrase_at(l, j) # 0 }

PAT_CMP(s) == cmp_match(s, Lower(s), cmp_starts(Lower(s)))

_CMP_MAP(comp) ==
  CASE comp \in {"at least", "no less than", "greater than or equal to", ">="} -> ">="
    [] comp \in {"more than", "greater than", ">"} -> ">"
    [] comp \in {"less than", "<"} -> "<"
    [] comp \in {"less than or equal to", "<=", "at most", "no more than", "not exceed",
                 "cannot exceed", "must not exceed", "should not exceed"} -> "<="
    [] OTHER -> ">="

\* group(1) of a search for a word followed, anywhere later, by a start in js
field_match(s, i) == IF i = 0 THEN [ok |-> FALSE] ELSE [ok |-> TRUE, field |-> IdentAt(s, i)]

field_before(s, js) == field_match(s, FirstIdx(words_before(s, js)))

\* _PAT_UNIQUE.search(s): ok and field = group(1)
unique_starts(l) == { j \in 1..Len(l) : WordAt(l, j, "unique") }

PAT_UNIQUE(s) == field_before(s, unique_starts(Lower(s)))

\* _PAT_NOT_EMPTY.search(s): ok and field = group(1)
NOT_EMPTY_PHRASES == {"not be empty", "not be blank", "be required", "is required", "required"}

not_empty_starts(l) ==
  { j \in 1..Len(l) : \E p \in NOT_EMPTY_PHRASES : StartsWithAt(l, j, p) }

PAT_NOT_EMPTY(s) == field_before(s, not_empty_starts(Lower(s)))

\* groups of _PAT_EQ when the target ends at e and "=" is expected at k
eq_groups(s, e, k) ==
  IF Ch(s, 1) \in LetterSet \cup {"_"} /\ Ch(s, k) = "=" /\ LStrip(From(s, k + 1)) # ""
  THEN [ok |-> TRUE, target |-> SubSeq(s, 1, e), rhs |-> LStrip(From(s, k + 1))]
  ELSE [ok |-> FALSE]

eq_target(s, e) == eq_groups(s, e, RunEnd(s, e + 1, SpaceSet) + 1)

\* _PAT_EQ.match(s): ok, target = group(1), rhs = group(2)
PAT_EQ(s) == eq_target(s, RunEnd(s, 2, WordSet \cup {"."}))

\* a rule is a mapping from keys to JSON values, as _llm_rules returns the
\* model's own objects
Rule(id, target, kind, expr, message) ==
  [id |-> JStr(id), target |-> JStr(target), kind |-> JStr(kind),
   expr |-> JStr(expr), message |-> JStr(message)]

\* [w.strip().lower() for w in re.split(r"[,\|]", g) if w.strip()]
lower_all(ps) == [k \in 1..Len(ps) |-> Lower(ps[k])]

enum_options(g) == lower_all(SplitStrip(g, {",", "|"}))

\* str(list of str) for strings without quotes or escapes
RECURSIVE ListItems(_)
ListItems(q) ==
  IF q = << >> THEN ""
  ELSE "'" \o Head(q) \o "'" \o (IF Len(q) > 1 THEN ", " ELSE "") \o ListItems(Tail(q))

ListRepr(q) == "[" \o ListItems(q) \o "]"

\* the rule each family builds from its match (lines 54-121)
neg_rule(m2, n) ==
  Rule(rule_mk_id(n), Capitalize(m2) \o ".amount", "constraint", "amount >= 0",
       "amount must not be negative")

neg_field(l, i) == IF i = 0 THEN "amount" ELSE IdentAt(l, i)

rule_neg(l, n) == neg_rule(neg_field(l, FirstIdx(IdentStarts(l))), n)

enum_rule(field, options, n) ==
  Rule(rule_mk_id(n), Capitalize(field) \o "." \o Lower(field), "constraint",
       Lower(field) \o " in " \o options,
       field \o " must be one of " \o options)

rule_enum(m, n) == enum_rule(Strip(m.g1), ListRepr(enum_options(m.g3)), n)

cmp_rule(field, comp, val, n) ==
  Rule(rule_mk_id(n), Capitalize(field) \o "." \o Lower(field), "constraint",
       Lower(field) \o " " \o _CMP_MAP(comp) \o " " \o val,
       IF \E w \in {"cannot", "must not", "should not", "not"} : StartsWithAt(comp, 1, w)
       THEN field \o " " \o comp \o " " \o val
       ELSE field \o " must be " \o comp \o " " \o val)

rule_cmp(m, n) == cmp_rule(m.field, Lower(m.comp), m.val, n)

rule_unique(m, n) ==
  Rule(rule_mk_id(n), Capitalize(m.field) \o "." \o Lower(m.field), "constraint",
       "unique(" \o Lower(m.field) \o ")", m.field \o " must be unique")

rule_not_empty(m, n) ==
  Rule(rule_mk_id(n), Capitalize(m.field) \o "." \o Lower(m.field), "constraint",
       Lower(m.field) \o " not in (None, '')", m.field \o " must not be empty")

rule_eq(m, n) ==
  Rule(rule_mk_id(n), m.target, "derivation", m.target \o " == " \o m.rhs,
       m.target \o " must equal " \o m.rhs)

\* the chain with the comparison family tried before the negation family
cascade_cmp_first(l, n, neg, enum, cmp, unique, not_empty, eq) ==
  IF cmp.ok THEN << rule_cmp(cmp, n) >>
  ELSE IF neg THEN << rule_neg(l, n) >>
  ELSE IF enum.ok THEN << rule_enum(enum, n) >>
  ELSE IF unique.ok THEN << rule_unique(unique, n) >>
  ELSE IF not_empty.ok THEN << rule_not_empty(not_empty, n) >>
  ELSE IF eq.ok THEN << rule_eq(eq, n) >>
  ELSE << >>

\* the if/continue chain of one loop iteration on the matches of the six
\* families: the rules (none or one) line l adds
cascade(l, n, neg, enum, cmp, unique, not_empty, eq) ==
  IF neg THEN << rule_neg(l, n) >>
  ELSE IF enum.ok THEN << rule_enum(enum, n) >>
  ELSE IF cmp.ok THEN << rule_cmp(cmp, n) >>
  ELSE IF unique.ok THEN << rule_unique(unique, n) >>
  ELSE IF not_empty.ok THEN << rule_not_empty(not_empty, n) >>
  ELSE IF eq.ok THEN << rule_eq(eq, n) >>
  ELSE << >>

line_rules(l, n) ==
  IF l = "" THEN << >>
  ELSE cascade(l, n, PAT_NEG(l), PAT_ENUM(l), PAT_CMP(l), PAT_UNIQUE(l),
               PAT_NOT_EMPTY(l), PAT_EQ(l))

\* the loop of _heuristic_rules: rules is the list built so far, and the
\* counter n is one more than its length
RECURSIVE heuristic_rule_lines(_, _)
heuristic_rule_lines(lines, rules) ==
  IF lines = << >> THEN rules
  ELSE heuristic_rule_lines(Tail(lines),
                            rules \o line_rules(Strip(Head(lines)), Len(rules) + 1))

heuristic_rules(prd) == heuristic_rule_lines(splitlines(prd), << >>)

\* dict.setdefault(k, v) on a mapping
SetDefault(d, k, v) == IF k \in DOMAIN d THEN d ELSE (k :> v) @@ d

\* lines 146-152 of _llm_rules: the loop over the parsed array
RECURSIVE rule_llm_items(_, _)
rule_llm_items(items, c) ==
  IF items = << >> THEN << >>
  ELSE IF ~IsObj(Head(items)) \/ ~Truthy(Get(Head(items).v, "expr"))
       THEN rule_llm_items(Tail(items), c)
       ELSE << SetDefault(SetDefault(SetDefault(Head(items).v, "id", JStr(rule_mk_id(c))),
                                     "kind", JStr("constraint")),
                          "message", JStr("")) >>
            \o rule_llm_items(Tail(items), c + 1)

\* return out or _heuristic_rules(prd), heuristic standing for the latter
out_or(out, heuristic) == IF out # << >> THEN out ELSE heuristic

\* _llm_rules(prd) on what the model call did: the call and the unwrapping
\* of its answer sit outside the try block; heuristic is _heuristic_rules(prd)
llm_rules(o, heuristic) ==
  CASE o.kind = "raise"      -> [raised |-> TRUE, out |-> << >>]
    [] o.kind = "unparsable" -> [raised |-> FALSE, out |-> heuristic]
    [] OTHER ->
         [raised |-> FALSE,
          out |-> out_or(IF IsList(o.data) THEN rule_llm_items(o.data.v, 1) ELSE << >>,
                         heuristic)]

rules_in_mode(llm, o, heuristic) ==
  IF llm THEN llm_rules(o, heuristic) ELSE [raised |-> FALSE, out |-> heuristic]

\* extract_rules(prd) under USE_LLM = llm, the model call doing o
extract_rules(prd, llm, o) == rules_in_mode(llm, o, heuristic_rules(prd))

(***************************************************************************)
(* Entity/workflow enricher (agents/spec_enricher.py)                      *)
(***************************************************************************)
\* last index of the line that contains position i (i - 1 when s[i] is a
\* newline or lies beyond the text): how far "." can match from i
LineEnd(s, i) ==
  IF i > Len(s) THEN i - 1
  ELSE LET n == FirstIdx({ j \in i..Len(s) : SubSeq(s, j, j) = "\n" })
       IN  IF n = 0 THEN Len(s) ELSE n - 1

\* _uniq: first occurrence of every structurally equal element
RECURSIVE uniq_from(_, _)
uniq_from(seq, seen) ==
  IF seq = << >> THEN << >>
  ELSE IF Head(seq) \in seen THEN uniq_from(Tail(seq), seen)
       ELSE << Head(seq) >> \o uniq_from(Tail(seq), seen \cup {Head(seq)})

uniq(seq) == uniq_from(seq, {})

Field(name) == [name |-> name, type |-> "string"]
Entity(name, fields) == [name |-> name, fields |-> fields]
Workflow(name, trigger, actions) == [name |-> name, trigger |-> trigger, actions |-> actions]

\* :\s*(.+) with the colon at c: the start of group 2, 0 when it cannot match
flow_tail(s, c) ==
  LastIdx({ u \in (c + 1)..(RunEnd(s, c + 1, SpaceSet) + 1) :
              u <= Len(s) /\ SubSeq(s, u, u) # "\n" })

\* (.+?): with group 1 starting at t: the colon that ends it, 0 when none
flow_colon(s, t) ==
  FirstIdx({ c \in (t + 1)..LineEnd(s, t) : SubSeq(s, c, c) = ":" /\ flow_tail(s, c) # 0 })

\* the match whose group 1 is s[t..c-1] and whose group 2 starts at u
flow_groups(s, t, c, u) ==
  [ok |-> TRUE, g1 |-> SubSeq(s, t, c - 1),
   g2 |-> SubSeq(s, u, LineEnd(s, u)), stop |-> LineEnd(s, u) + 1]

flow_from_colon(s, t, c) == flow_groups(s, t, c, flow_tail(s, c))

flow_from(s, t) == IF t = 0 THEN [ok |-> FALSE] ELSE flow_from_colon(s, t, flow_colon(s, t))

\* the length of (?:when|on) at position i, 0 when neither is there
flow_keyword(l, i) ==
  IF StartsWithAt(l, i, "when") THEN 4 ELSE IF StartsWithAt(l, i, "on") THEN 2 ELSE 0

\* \s+ is greedy and gives characters back: the last start of group 1 that
\* works
flow_after(s, i, n) ==
  IF n = 0 THEN [ok |-> FALSE]
  ELSE flow_from(s, LastIdx({ t \in (i + n + 1)..(RunEnd(s, i + n, SpaceSet) + 1) :
                                flow_colon(s, t) # 0 }))

\* (?i)(?:when|on)\s+(.+?):\s*(.+) matched at position i of s (l = s.lower())
flow_match_at(s, l, i) == flow_after(s, i, flow_keyword(l, i))

\* re.finditer over the text from position pos
RECURSIVE flow_matches(_, _, _)
flow_rest(s, l, m) == << m >> \o flow_matches(s, l, m.stop)

flow_next(s, l, i) == IF i = 0 THEN << >> ELSE flow_rest(s, l, flow_match_at(s, l, i))

flow_matches(s, l, pos) ==
  flow_next(s, l, FirstIdx({ i \in pos..Len(s) : flow_match_at(s, l, i).ok }))

\* lines 79-81: one workflow per match
workflow_of(trigger, actions) ==
  Workflow(SubSeq(trigger, 1, IF Len(trigger) < 40 THEN Len(trigger) ELSE 40),
           trigger, SplitStrip(actions, {";", ","}))

match_workflows(ms) == [k \in 1..Len(ms) |-> workflow_of(Strip(ms[k].g1), ms[k].g2)]

heuristic_workflows(prd) == uniq(match_workflows(flow_matches(prd, Lower(prd), 1)))

\* (?i)\bentity:\s*([A-Za-z][A-Za-z0-9_]*)\s*\(([^)]+)\) matched at i
entity_match_at(s, l, i) ==
  LET a == RunEnd(s, i + 7, SpaceSet) + 1          \* start of the name
      b == RunEnd(s, a, WordSet)                   \* end of the name
      p == RunEnd(s, b + 1, SpaceSet) + 1          \* the "("
      cs == { c \in (p + 2)..Len(s) : SubSeq(s, c, c) = ")" }
  IN  IF /\ StartsWithAt(l, i, "entity:") /\ Ch(s, i - 1) \notin WordSet
         /\ Ch(s, a) \in LetterSet /\ Ch(s, p) = "(" /\ Ch(s, p + 1) \notin {"", ")"}
         /\ cs # {}
      THEN [ok |-> TRUE, g1 |-> SubSeq(s, a, b),
            g2 |-> SubSeq(s, p + 1, FirstIdx(cs) - 1), stop |-> FirstIdx(cs) + 1]
      ELSE [ok |-> FALSE]

RECURSIVE entity_matches(_, _, _)
entity_rest(s, l, m) == << m >> \o entity_matches(s, l, m.stop)

entity_next(s, l, i) == IF i = 0 THEN << >> ELSE entity_rest(s, l, entity_match_at(s, l, i))

entity_matches(s, l, pos) ==
  entity_next(s, l, FirstIdx({ i \in pos..Len(s) : entity_match_at(s, l, i).ok }))

\* re.split(r"\n(?=#+\s)", s): the blocks between the newlines that are
\* followed by a heading
RECURSIVE heading_blocks(_, _)
heading_blocks(s, start) ==
  LET nxt == FirstIdx({ i \in start..Len(s) :
                          /\ SubSeq(s, i, i) = "\n"
                          /\ Ch(s, i + 1) = "#"
                          /\ Ch(s, RunEnd(s, i + 1, {"#"}) + 1) \in SpaceSet })
  IN  IF nxt = 0 THEN << From(s, start) >>
      ELSE << SubSeq(s, start, nxt - 1) >> \o heading_blocks(s, nxt + 1)

\* re.match(r"#+\s*([A-Za-z][A-Za-z0-9_]*)", b): ok and group(1)
heading_match(b) ==
  LET a == RunEnd(b, RunEnd(b, 1, {"#"}) + 1, SpaceSet) + 1
  IN  IF Ch(b, 1) = "#" /\ Ch(b, a) \in LetterSet
      THEN [ok |-> TRUE, g1 |-> SubSeq(b, a, RunEnd(b, a, WordSet))]
      ELSE [ok |-> FALSE]

\* re.findall(r"^\s*[-*]\s*([A-Za-z][A-Za-z0-9_]*)\s*$", b, flags=re.M):
\* a bullet that is the first non-blank character of its line, a name after
\* optional white space (newlines included), nothing else on the name's line
bullet_at(b, i) ==
  LET a == RunEnd(b, i + 1, SpaceSet) + 1
      e == RunEnd(b, a, WordSet)
      z == RunEnd(b, e + 1, {" ", "\t"}) + 1
      first == \A k \in 1..(i - 1) :
                 (\A k2 \in k..(i - 1) : SubSeq(b, k2, k2) # "\n") => SubSeq(b, k, k) \in SpaceSet
  IN  IF /\ Ch(b, i) \in {"-", "*"} /\ first
         /\ Ch(b, a) \in LetterSet /\ Ch(b, z) \in {"", "\n"}
      THEN [ok |-> TRUE, g1 |-> SubSeq(b, a, e)]
      ELSE [ok |-> FALSE]

bullet_names(b, is) == [k \in 1..Len(is) |-> bullet_at(b, is[k]).g1]

bullet_fields(b) == bullet_names(b, Ascending({ i \in 1..Len(b) : bullet_at(b, i).ok }))

\* lines 62-68: the entity of one block, h its heading and fs its bullets
block_entity(h, fs) ==
  IF h.ok /\ fs # << >>
  THEN << Entity(h.g1, [k \in 1..Len(fs) |-> Field(fs[k])]) >> ELSE << >>

RECURSIVE block_entities(_)
block_entities(blocks) ==
  IF blocks = << >> THEN << >>
  ELSE block_entity(heading_match(Head(blocks)), bullet_fields(Head(blocks)))
       \o block_entities(Tail(blocks))

DefaultCustomer ==
  Entity("Customer",
         << [name |-> "id", type |-> "uuid", pk |-> TRUE],
            [name |-> "email", type |-> "string", unique |-> TRUE],
            [name |-> "name", type |-> "string"] >>)

\* lines 56-59: the entity of one inline match
inline_entity(name, fs) == Entity(Strip(name), [j \in 1..Len(fs) |-> Field(fs[j])])

inline_entities(ms) ==
  [k \in 1..Len(ms) |-> inline_entity(ms[k].g1, SplitStrip(ms[k].g2, {","}))]

\* _heuristic_entities without the default of lines 69-73
entities_as_found(entities) == uniq(entities)

\* lines 69-74: the default entity, and _uniq
entities_or_default(entities) ==
  uniq(IF entities = << >> THEN << DefaultCustomer >> ELSE entities)

heuristic_entities(prd) ==
  entities_or_default(inline_entities(entity_matches(prd, Lower(prd), 1))
                        \o block_entities(heading_blocks(prd, 1)))

\* str(x) of a string, a natural number, a boolean or None (str of an
\* array or a mapping is not modelled: no answer of the model puts one where
\* str is applied)
PyStr(x) ==
  CASE x.t = "str"  -> x.v
    [] x.t = "num"  -> Decimal(x.v)
    [] x.t = "bool" -> IF x.v THEN "True" ELSE "False"
    [] x.t = "null" -> "None"

\* the loop of _coerce_entities over the fields of one entity
RECURSIVE coerce_fields(_, _)
coerce_fields(fields, seen) ==
  IF fields = << >> THEN << >>
  ELSE LET f == Head(fields)
           fname == Get(f.v, "name")
       IN  IF ~IsObj(f) THEN coerce_fields(Tail(fields), seen)
           ELSE IF ~IsStr(fname) \/ Strip(fname.v) = "" \/ fname.v \in seen
                THEN coerce_fields(Tail(fields), seen)
                ELSE LET base == [name |-> fname.v,
                                  type |-> PyStr(GetOr(f.v, "type", JStr("string")))]
                         pk   == IF "pk" \in DOMAIN f.v
                                 THEN [pk |-> Truthy(f.v["pk"])] ELSE << >>
                         un   == IF "unique" \in DOMAIN f.v
                                 THEN [unique |-> Truthy(f.v["unique"])] ELSE << >>
                         fk   == IF Get(f.v, "fk").t # "null"
                                 THEN [fk |-> PyStr(f.v["fk"])] ELSE << >>
                     IN  << base @@ pk @@ un @@ fk >>
                         \o coerce_fields(Tail(fields), seen \cup {fname.v})

RECURSIVE coerce_entity_items(_)
coerce_entity_items(es) ==
  IF es = << >> THEN << >>
  ELSE LET e == Head(es)
           name == Get(e.v, "name")
           fields == Or(Get(e.v, "fields"), JList(<< >>))
       IN  IF ~IsObj(e) THEN coerce_entity_items(Tail(es))
           ELSE IF ~IsStr(name) \/ Strip(name.v) = "" THEN coerce_entity_items(Tail(es))
           ELSE << Entity(name.v, coerce_fields(IF IsList(fields) THEN fields.v ELSE << >>, {})) >>
                \o coerce_entity_items(Tail(es))

coerce_entities(entities) ==
  IF ~IsList(entities) THEN << >> ELSE uniq(coerce_entity_items(entities.v))

\* the loop of _coerce_workflows; iterating over actions raises when it is
\* a number or a boolean
RECURSIVE coerce_workflow_items(_)
coerce_workflow_items(ws) ==
  IF ws = << >> THEN [raised |-> FALSE, out |-> << >>]
  ELSE LET w == Head(ws)
           name == Or(Get(w.v, "name"), Or(Get(w.v, "trigger"), JStr("Workflow")))
           trigger == Or(Get(w.v, "trigger"), JStr(""))
           actions == Or(Get(w.v, "actions"), JList(<< >>))
           items == IF IsStr(actions) THEN << actions >> ELSE actions.v
           strs == SelectSeq([k \in 1..Len(items) |-> Strip(PyStr(items[k]))], NonEmpty)
           nm == PyStr(name)
           rest == coerce_workflow_items(Tail(ws))
       IN  IF ~IsObj(w) THEN rest
           ELSE IF ~IsStr(actions) /\ ~IsList(actions) THEN [raised |-> TRUE, out |-> << >>]
           ELSE IF rest.raised THEN rest
           ELSE [raised |-> FALSE,
                 out |-> << Workflow(SubSeq(nm, 1, IF Len(nm) < 80 THEN Len(nm) ELSE 80),
                                     PyStr(trigger), strs) >> \o rest.out]

uniq_flows(r) == IF r.raised THEN r ELSE [raised |-> FALSE, out |-> uniq(r.out)]

coerce_workflows(workflows) ==
  IF ~IsList(workflows) THEN [raised |-> FALSE, out |-> << >>]
  ELSE uniq_flows(coerce_workflow_items(workflows.v))

\* json.dumps of a list of workflows whose strings need no escaping
DumpStr(x) == "\"" \o x \o "\""

RECURSIVE DumpStrs(_)
DumpStrs(q) ==
  IF q = << >> THEN ""
  ELSE DumpStr(Head(q)) \o (IF Len(q) > 1 THEN ", " ELSE "") \o DumpStrs(Tail(q))

DumpFlow(w) ==
  "{\"name\": " \o DumpStr(w.name) \o ", \"trigger\": " \o DumpStr(w.trigger)
    \o ", \"actions\": [" \o DumpStrs(w.actions) \o "]}"

RECURSIVE DumpFlows(_)
DumpFlows(q) ==
  IF q = << >> THEN ""
  ELSE DumpFlow(Head(q)) \o (IF Len(q) > 1 THEN ", " ELSE "") \o DumpFlows(Tail(q))

json_dumps_flows(flows) == "[" \o DumpFlows(flows) \o "]"

\* _ensure_health appending nothing
keep_flows(flows) == flows

HealthWorkflow == Workflow("Health", "http", << "GET /health returns 200 {status:ok}" >>)

\* "health" not in s and "/health" not in s
lacks_health(s) == ~Contains(s, "health") /\ ~Contains(s, "/health")

ensure_health(flows) ==
  IF lacks_health(Lower(json_dumps_flows(flows))) THEN Append(flows, HealthWorkflow) ELSE flows

\* range(3) in the retry loops of spec_enricher._llm_extract and
\* spec_agent._llm_prd_to_spec_data
MaxAttempts == 3

\* lines 145-147 on the coerced lists: iterating a workflow's actions may
\* raise, which the loop catches
enrich_coerced(entities, flows) ==
  IF flows.raised THEN [kind |-> "retry"]
  ELSE [kind |-> "return", entities |-> entities, workflows |-> flows.out]

\* lines 144-147 on data = _load_structured(body) or {}
enrich_loaded(data) ==
  IF ~IsObj(data) THEN [kind |-> "retry"]          \* data.get
  ELSE enrich_coerced(coerce_entities(Get(data.v, "entities")),
                      coerce_workflows(Get(data.v, "workflows")))

\* one attempt of spec_enricher._llm_extract on what the model call did:
\* "raise" (the call raised), "retry" (caught in the loop) or "return"
enrich_llm_attempt(o) ==
  CASE o.kind = "raise"      -> [kind |-> "raise"]
    [] o.kind = "unparsable" -> [kind |-> "retry"]
    [] OTHER -> enrich_loaded(Or(o.data, JObj(<< >>)))

\* spec_enricher._llm_extract on the sequence os of what the successive model
\* calls did (one element per call made)
RECURSIVE enrich_llm_extract(_)
enrich_after(a, os) == IF a.kind = "retry" THEN enrich_llm_extract(os) ELSE a

enrich_llm_extract(os) ==
  IF os = << >> THEN [kind |-> "return", entities |-> << >>, workflows |-> << >>]
  ELSE enrich_after(enrich_llm_attempt(Head(os)), Tail(os))

\* the sequences of model calls one invocation of a retry loop can make:
\* every call but the last one is retried, and a retry of the last call
\* happens only on the third
CallSeqs(Outcomes, retried(_)) ==
  { os \in UNION { [1..k -> Outcomes] : k \in 1..MaxAttempts } :
      /\ \A k \in 1..(Len(os) - 1) : retried(os[k])
      /\ retried(os[Len(os)]) => Len(os) = MaxAttempts }

enrich_retried(o) == enrich_llm_attempt(o).kind = "retry"

\* lines 157-163: what the model-assisted extraction leaves in ents, flows
llm_lists(llm, data) ==
  IF llm /\ data.kind = "return"
  THEN [entities |-> data.entities, workflows |-> data.workflows]
  ELSE [entities |-> << >>, workflows |-> << >>]

\* enrich_spec without the fallbacks of lines 164-165
keep_list(xs, heuristic) == xs

\* if not xs: xs = heuristic
or_heuristic(xs, heuristic) == IF xs = << >> THEN heuristic ELSE xs

\* lines 164-166
enriched(lists, entities, workflows) ==
  [entities |-> or_heuristic(lists.entities, entities),
   workflows |-> ensure_health(or_heuristic(lists.workflows, workflows))]

\* enrich_spec(spec, prd_text): the entities and workflows (lines 154-166)
enrich_entities_workflows(prd, llm, os) ==
  enriched(llm_lists(llm, IF llm THEN enrich_llm_extract(os) ELSE [kind |-> "raise"]),
           heuristic_entities(prd), heuristic_workflows(prd))

\* lines 168-173: new_spec, or raised when one of the two extractors raises
new_spec(spec, ew, rq, rl) ==
  IF rq.raised \/ rl.raised
  THEN [raised |-> TRUE, spec |-> << >>]
  ELSE [raised |-> FALSE,
        spec |-> [k \in DOMAIN spec \cup {"entities", "workflows", "requirements", "business_rules"} |->
                    CASE k = "entities" -> ew.entities
                      [] k = "workflows" -> ew.workflows
                      [] k = "requirements" -> rq.out
                      [] k = "business_rules" -> rl.out
                      [] OTHER -> spec[k]]]

\* new_spec = dict(spec) (line 168): the object passed in after the call.
\* The assignments of lines 169-172 go to the copy.
input_after_update(spec, r) == IF r.raised THEN spec ELSE r.spec
input_after_copy(spec, r) == spec

\* enrich_spec(spec, prd_text) under USE_LLM = llm, the model calls of
\* _llm_extract doing os and those of the two extractors reqo and ruleo
enrich_spec(spec, prd, llm, os, reqo, ruleo) ==
  new_spec(spec, enrich_entities_workflows(prd, llm, os),
           extract_requirements(prd, llm, reqo), extract_rules(prd, llm, ruleo))

(***************************************************************************)
(* Spec agent (agents/spec_agent.py): coercion and the synthesis loop      *)
(***************************************************************************)
NameChars == LetterSet \cup DigitSet \cup {"_", "-", " "}

\* (?:name|project|product)[:\-]\s*([A-Za-z0-9_\- ]+) matched at i: the
\* start of the group, 0 when there is no match
name_match_at(s, l, i) ==
  LET n  == IF StartsWithAt(l, i, "name") THEN 4
            ELSE IF StartsWithAt(l, i, "project") \/ StartsWithAt(l, i, "product") THEN 7
            ELSE 0
      r  == RunEnd(s, i + n + 1, SpaceSet)
      gs == { g \in (i + n + 1)..(r + 1) : Ch(s, g) \in NameChars }
  IN  IF n = 0 \/ Ch(s, i + n) \notin {":", "-"} THEN 0 ELSE LastIdx(gs)

\* re.sub(r"\s+", "-", n): every run of white space becomes one hyphen
RECURSIVE hyphenate(_, _)
hyphenate(n, start) ==
  LET sp == FirstIdx({ i \in start..Len(n) : SubSeq(n, i, i) \in SpaceSet })
  IN  IF sp = 0 THEN From(n, start)
      ELSE SubSeq(n, start, sp - 1) \o "-" \o hyphenate(n, RunEnd(n, sp, SpaceSet) + 1)

\* (m[0] if m else "my-app").strip() for m = re.findall(the name pattern)
first_name(prd, l, is) ==
  IF is = {} THEN "my-app"
  ELSE Strip(SubSeq(prd, name_match_at(prd, l, FirstIdx(is)),
                    RunEnd(prd, name_match_at(prd, l, FirstIdx(is)), NameChars)))

name_starts(prd, l) == { i \in 1..Len(prd) : name_match_at(prd, l, i) # 0 }

name_found(prd, l) == first_name(prd, l, name_starts(prd, l))

name_from_prd(prd) == hyphenate(Lower(name_found(prd, Lower(prd))), 1)

\* dict(x or {}): the mapping, or raised for a non-empty string, a number,
\* True or a non-empty array (of anything but pairs)
to_dict(x) ==
  IF ~Truthy(x) THEN [raised |-> FALSE, v |-> << >>]
  ELSE IF IsObj(x) THEN [raised |-> FALSE, v |-> x.v]
  ELSE [raised |-> TRUE, v |-> << >>]

\* d with d.setdefault(k, JStr(dflt[k])) for every key of dflt
WithDefaults(d, dflt) ==
  [k \in DOMAIN d \cup DOMAIN dflt |-> IF k \in DOMAIN d THEN d[k] ELSE JStr(dflt[k])]

\* _coerce_to_schema(data, prd_text): the draft, a JSON mapping
coerce_to_schema(data, prd) ==
  LET d      == to_dict(data)
      meta   == to_dict(Get(d.v, "meta"))
      stacks == to_dict(Get(d.v, "stacks"))
      be     == to_dict(Get(stacks.v, "backend"))
      fe     == to_dict(Get(stacks.v, "frontend"))
      db     == to_dict(Get(stacks.v, "database"))
      infra  == to_dict(Get(stacks.v, "infra"))
      name   == Get(meta.v, "name")
      meta1  == IF "name" \notin DOMAIN meta.v \/ ~IsStr(name) \/ (IsStr(name) /\ Strip(name.v) = "")
                THEN ("name" :> JStr(name_from_prd(prd))) @@ meta.v ELSE meta.v
      meta2  == WithDefaults(meta1, [domain |-> "App", version |-> "0.1.0"])
      stacks1 == [backend  |-> JObj(WithDefaults(be.v, [framework |-> "unspecified", lang |-> "unspecified",
                                                         orm |-> "unspecified", runtime |-> "unspecified"])),
                  frontend |-> JObj(WithDefaults(fe.v, [framework |-> "unspecified", lang |-> "unspecified",
                                                         ui |-> "unspecified"])),
                  database |-> JObj(WithDefaults(db.v, [type |-> "unspecified", version |-> "unspecified"])),
                  infra    |-> JObj(WithDefaults(infra.v, [orchestrator |-> "unspecified",
                                                            cloud |-> "unspecified"]))]
                 @@ stacks.v
      lists  == {"entities", "workflows", "requirements"}
      dicts  == {"integrations", "non_functional", "ci_cd", "constraints"}
      out    == [k \in DOMAIN d.v \cup {"meta", "stacks"} \cup lists \cup dicts |->
                   CASE k = "meta" -> JObj(meta2)
                     [] k = "stacks" -> JObj(stacks1)
                     [] k \in DOMAIN d.v -> d.v[k]
                     [] k \in lists -> JList(<< >>)
                     [] OTHER -> JObj(<< >>)]
  IN  IF d.raised THEN [raised |-> TRUE]
      ELSE IF meta.raised THEN [raised |-> TRUE]
      ELSE IF stacks.raised THEN [raised |-> TRUE]
      ELSE IF be.raised \/ fe.raised \/ db.raised \/ infra.raised THEN [raised |-> TRUE]
      ELSE [raised |-> FALSE, data |-> JObj(out)]

\* validate(instance, schema) against specs/SPEC_SCHEMA.json: the nine
\* required top-level keys with their types, backend and frontend in stacks
schema_valid(x) ==
  /\ IsObj(x)
  /\ \A k \in {"meta", "stacks", "integrations", "non_functional", "ci_cd", "constraints"} :
       k \in DOMAIN x.v /\ IsObj(x.v[k])
  /\ \A k \in {"entities", "workflows", "requirements"} :
       k \in DOMAIN x.v /\ IsList(x.v[k])
  /\ \A k \in {"backend", "frontend"} :
       k \in DOMAIN x.v["stacks"].v /\ IsObj(x.v["stacks"].v[k])

\* a model answer whose text json.loads rejects as a whole but which holds a
\* fenced block that parses to data
Fenced(data) == [kind |-> "fenced", data |-> data]

Message(role, content) == [role |-> role, content |-> content]

\* msgs of _llm_prd_to_spec_data before the loop (line 130)
InitialMessages ==
  << Message("system", "instructions"), Message("user", "schema, template and PRD") >>

\* the loop goes on without the prior answer in the conversation
retry_bare(answer, instruction) ==
  [kind |-> "retry", append |-> << Message("user", instruction) >>]

\* the two msgs.append of a failed attempt (lines 149-150 and 158-159)
retry_with(answer, instruction) ==
  [kind |-> "retry",
   append |-> << Message("assistant", answer), Message("user", instruction) >>]

\* the iteration without the validation step: a coerced answer is returned
\* whether or not it validates
synth_unvalidated(coerced) ==
  IF coerced.raised THEN [kind |-> "raise", error |-> "coercion"]
  ELSE [kind |-> "return", data |-> coerced.data]

\* lines 152-160 on coerced = _coerce_to_schema(parsed, prd_text)
synth_validated(coerced) ==
  IF coerced.raised THEN [kind |-> "raise", error |-> "coercion"]
  ELSE IF schema_valid(coerced.data) THEN [kind |-> "return", data |-> coerced.data]
  ELSE retry_with("coerced answer", "Validation failed")

\* one iteration of the loop of _llm_prd_to_spec_data (lines 131-160) on
\* what the model call did: "raise" with the error, "retry" with the two
\* messages it appends, or "return" with the coerced spec
synth_attempt(o, prd) ==
  CASE o.kind = "raise" -> [kind |-> "raise", error |-> "model call"]
    [] o.kind = "unparsable" -> retry_with("raw answer", "Not valid JSON")
    [] OTHER -> synth_validated(coerce_to_schema(o.data, prd))

\* _normalize(s): the token, or raised when s is truthy and not a string
\* (it has no strip)
NormalizeMap(t) ==
  CASE t \in {"node.js", "nodejs", "node js"} -> "node"
    [] t = "javascript" -> "js"
    [] t = "typescript" -> "ts"
    [] t \in {"postgresql", "postgre"} -> "postgres"
    [] t = "kubernetes" -> "k8s"
    [] t = "next.js" -> "nextjs"
    [] t \in {"material ui", "mui"} -> "material-ui"
    [] OTHER -> t

normalize(x) ==
  IF ~Truthy(x) THEN [raised |-> FALSE, v |-> "unspecified"]
  ELSE IF IsStr(x) THEN [raised |-> FALSE, v |-> NormalizeMap(Lower(Strip(x.v)))]
  ELSE [raised |-> TRUE, v |-> ""]

\* d[k] = v on a mapping
Put(d, k, v) == (k :> v) @@ d

\* x in (None, "", "unspecified")
Unspecified(x) == x \in {JNull, JStr(""), JStr("unspecified")}

\* _apply_defaults leaving every value as it is
keep_value(d, k, dflt) == d

\* if d.get(k) in (None, "", "unspecified"): d[k] = dflt
default_to(d, k, dflt) == IF Unspecified(Get(d, k)) THEN Put(d, k, JStr(dflt)) ELSE d

\* lines 69-72 of _apply_defaults on the lower-cased PRD t
mentions_mui(t) == Contains(t, "material-ui") \/ Contains(t, "material ui") \/ Contains(t, "mui")

default_ui(fe, t) ==
  IF Unspecified(Get(fe, "ui")) /\ mentions_mui(t) THEN Put(fe, "ui", JStr("material-ui")) ELSE fe

backend_defaults(be) == default_to(default_to(be, "framework", "fastapi"), "lang", "python")

frontend_defaults(fe, t) ==
  default_ui(default_to(default_to(fe, "framework", "react"), "lang", "ts"), t)

\* spec with the two stack records replaced
with_stacks(spec, be, fe) ==
  Put(spec, "stacks", JObj(Put(Put(spec["stacks"].v, "backend", JObj(be)), "frontend", JObj(fe))))

\* _apply_defaults(spec, prd_text) on a spec (a mapping) whose stacks hold
\* backend and frontend records
apply_defaults(spec, prd) ==
  with_stacks(spec, backend_defaults(spec["stacks"].v["backend"].v),
              frontend_defaults(spec["stacks"].v["frontend"].v, Lower(prd)))

\* pick(regexes, value) of _heuristic_prd_to_spec: each regex is \bw\b for
\* the words w of one alternative set
pick(words, value, t) ==
  IF \E w \in words : \E i \in 1..Len(t) : WordAt(t, i, w) THEN value ELSE "unspecified"

BackendFrameworks == {"fastapi", "django", "express", "nest", "spring"}
BackendLangs == {"python", "typescript", "javascript", "ts", "js"}
FrontendFrameworks == {"nextjs", "next.js", "react", "vue", "nuxt"}
FrontendLangs == {"typescript", "javascript", "ts", "js"}
DatabaseTypes == {"postgres", "postgresql", "mysql", "sqlite", "mssql"}
Orchestrators == {"docker", "docker-compose", "kubernetes", "k8s"}
Clouds == {"aws", "gcp", "azure"}

\* str.replace(" ", "-")
RECURSIVE replace_spaces(_)
replace_spaces(n) ==
  IF n = "" THEN ""
  ELSE (IF SubSeq(n, 1, 1) = " " THEN "-" ELSE SubSeq(n, 1, 1)) \o replace_spaces(From(n, 2))

\* proj_name of _heuristic_prd_to_spec (lines 175-176)
proj_name(prd) == replace_spaces(Lower(name_found(prd, Lower(prd))))

\* _normalize of a picked token
token(w) == JStr(normalize(JStr(w)).v)

\* data of _heuristic_prd_to_spec (lines 178-187), t the lower-cased PRD
heuristic_data(prd, t) ==
  [meta |-> JObj([name |-> JStr(proj_name(prd)), domain |-> JStr("App"), version |-> JStr("0.1.0")]),
   stacks |-> JObj(
     [backend  |-> JObj([framework |-> token(pick(BackendFrameworks, "unspecified", t)),
                         lang |-> token(pick(BackendLangs, "unspecified", t)),
                         orm |-> JStr("unspecified"), runtime |-> JStr("unspecified")]),
      frontend |-> JObj([framework |-> token(pick(FrontendFrameworks, "unspecified", t)),
                         lang |-> token(pick(FrontendLangs, "unspecified", t)),
                         ui |-> JStr("unspecified")]),
      database |-> JObj([type |-> token(pick(DatabaseTypes, "unspecified", t)),
                         version |-> JStr("unspecified")]),
      infra    |-> JObj([orchestrator |-> token(pick(Orchestrators, "unspecified", t)),
                         cloud |-> token(pick(Clouds, "unspecified", t))])]),
   entities |-> JList(<< >>), workflows |-> JList(<< >>), requirements |-> JList(<< >>),
   integrations |-> JObj(<< >>), non_functional |-> JObj(<< >>), ci_cd |-> JObj(<< >>),
   constraints |-> JObj(<< >>)]

\* validate(instance=data), then _apply_defaults (lines 188-189)
heuristic_checked(data, prd) ==
  IF schema_valid(JObj(data)) THEN [raised |-> FALSE, data |-> apply_defaults(data, prd)]
  ELSE [raised |-> TRUE, data |-> << >>]

\* _heuristic_prd_to_spec(prd_text)
heuristic_prd_to_spec(prd) == heuristic_checked(heuristic_data(prd, Lower(prd)), prd)

\* _llm_prd_to_spec_data(prd_text) on the sequence os of what the successive
\* model calls did: "return" with the coerced spec or "raise"
RECURSIVE llm_prd_to_spec_data(_, _)
synth_after(a, os, prd) == IF a.kind = "retry" THEN llm_prd_to_spec_data(os, prd) ELSE a

llm_prd_to_spec_data(os, prd) ==
  IF os = << >> THEN [kind |-> "raise", error |-> "RuntimeError"]
  ELSE synth_after(synth_attempt(Head(os), prd), Tail(os), prd)

synth_retried(o) == synth_attempt(o, "").kind = "retry"

\* prd_to_spec without the except branch of lines 196-199: a failure of the
\* model path reaches the caller
llm_or_raise(r, prd) ==
  IF r.kind = "return" THEN [raised |-> FALSE, data |-> r.data.v]
  ELSE [raised |-> TRUE, data |-> << >>]

\* lines 193-201 of prd_to_spec: the model's spec, or the heuristic one when
\* the model path raised
llm_or_heuristic(r, prd) ==
  IF r.kind = "return" THEN [raised |-> FALSE, data |-> r.data.v] ELSE heuristic_prd_to_spec(prd)

spec_data(prd, llm, os) ==
  IF llm THEN llm_or_heuristic(llm_prd_to_spec_data(os, prd), prd) ELSE heuristic_prd_to_spec(prd)

\* lines 203-205: the four tokens normalized
normalized_stacks(data, bf, bl, ff, fl) ==
  IF bf.raised \/ bl.raised \/ ff.raised \/ fl.raised THEN [raised |-> TRUE, data |-> << >>]
  ELSE [raised |-> FALSE,
        data |-> with_stacks(data,
                   Put(Put(data["stacks"].v["backend"].v, "framework", JStr(bf.v)), "lang", JStr(bl.v)),
                   Put(Put(data["stacks"].v["frontend"].v, "framework", JStr(ff.v)), "lang", JStr(fl.v)))]

normalize_stacks(data, be, fe) ==
  normalized_stacks(data, normalize(Get(be, "framework")), normalize(Get(be, "lang")),
                    normalize(Get(fe, "framework")), normalize(Get(fe, "lang")))

\* lines 206-209: defaults, the final validation and the return
validated_spec(draft, spec) ==
  IF schema_valid(JObj(spec)) THEN [raised |-> FALSE, draft |-> draft, spec |-> spec]
  ELSE [raised |-> TRUE, draft |-> draft, spec |-> << >>]

finished_spec(draft, n, prd) ==
  IF n.raised THEN [raised |-> TRUE, draft |-> draft, spec |-> << >>]
  ELSE validated_spec(draft, apply_defaults(n.data, prd))

\* lines 203-209 on data
finish_spec(d, prd) ==
  IF d.raised THEN [raised |-> TRUE, draft |-> << >>, spec |-> << >>]
  ELSE finished_spec(d.data,
                     normalize_stacks(d.data, d.data["stacks"].v["backend"].v,
                                      d.data["stacks"].v["frontend"].v), prd)

\* prd_to_spec(prd_text) under USE_LLM = llm, the model calls doing os:
\* raised, the data before line 203 (draft) and the returned spec
prd_to_spec(prd, llm, os) == finish_spec(spec_data(prd, llm, os), prd)


(***************************************************************************)
(* File generator (agents/filegen_agent.py): the entity resolver           *)
(***************************************************************************)
\* irregular_plurals of _find_entity_by_name
irregular_plurals ==
  [person |-> "people", child |-> "children", foot |-> "feet", tooth |-> "teeth",
   mouse |-> "mice", man |-> "men", woman |-> "women"]

\* a.endswith('s') and a[:-1] == b
drops_s(a, b) == a # "" /\ Ch(a, Len(a)) = "s" /\ SubSeq(a, 1, Len(a) - 1) = b

\* lines 963-966: a trailing s added or removed
s_variation(entity_name, name_lower) ==
  drops_s(entity_name, name_lower) \/ drops_s(name_lower, entity_name)

\* lines 975-985: the irregular plurals, both ways
irregular_variation(entity_name, name_lower) ==
  \/ entity_name \in DOMAIN irregular_plurals /\ irregular_plurals[entity_name] = name_lower
  \/ name_lower \in DOMAIN irregular_plurals /\ irregular_plurals[name_lower] = entity_name
  \/ \E singular \in DOMAIN irregular_plurals :
       \/ entity_name = irregular_plurals[singular] /\ name_lower = singular
       \/ entity_name = singular /\ name_lower = irregular_plurals[singular]

\* the first entity of the first loop (lines 953-956), 0 when none
direct_match(entities, name_lower) ==
  FirstIdx({ i \in 1..Len(entities) : Lower(entities[i].name) = name_lower })

\* the first entity of the second loop (lines 959-985), 0 when none
variation_match(entities, name_lower) ==
  FirstIdx({ i \in 1..Len(entities) :
               \/ s_variation(Lower(entities[i].name), name_lower)
               \/ irregular_variation(Lower(entities[i].name), name_lower) })

NoEntity == [found |-> FALSE]

Found(entity) == [found |-> TRUE, entity |-> entity]

\* one pass over the list that returns the first entity any rule accepts
resolve_in_one_pass(entities, direct, variation) ==
  IF direct = 0 /\ variation = 0 THEN NoEntity
  ELSE IF direct = 0 THEN Found(entities[variation])
  ELSE IF variation = 0 \/ direct < variation THEN Found(entities[direct])
  ELSE Found(entities[variation])

\* the direct match wins over every variation (lines 953-987)
resolve(entities, direct, variation) ==
  IF direct # 0 THEN Found(entities[direct])
  ELSE IF variation # 0 THEN Found(entities[variation])
  ELSE NoEntity

found_entity(entities, name_lower) ==
  resolve(entities, direct_match(entities, name_lower), variation_match(entities, name_lower))

\* _find_entity_by_name(entities, name)
find_entity_by_name(entities, name) == found_entity(entities, Lower(name))

(***************************************************************************)
(* File generator (agents/filegen_agent.py): relevance by token overlap    *)
(***************************************************************************)
\* re.findall(r"\w+", s) as a set: the maximal runs of word characters
word_tokens(s) ==
  { SubSeq(s, i, RunEnd(s, i, WordSet)) :
      i \in { k \in 1..Len(s) : Ch(s, k) \in WordSet /\ Ch(s, k - 1) \notin WordSet } }

\* {stemmer.stem(tok) for tok in tokens}; the stemmer is the library's, a
\* function stem from tokens to roots
roots_of(tokens, stem) == { stem[tok] : tok \in tokens }

\* a ratio n / d, d > 0
Ratio(n, d) == [num |-> n, den |-> d]

\* the share of the text roots that are name roots
share_of_text(name_roots, text_roots) ==
  IF text_roots = {} THEN Ratio(0, 1)
  ELSE Ratio(Cardinality(name_roots \cap text_roots), Cardinality(text_roots))

\* len(intersect) / len(name_roots) (lines 49-50)
share_of_name(name_roots, text_roots) ==
  Ratio(Cardinality(name_roots \cap text_roots), Cardinality(name_roots))

overlap_of(name_tokens, text_tokens, stem) ==
  IF name_tokens = {} THEN Ratio(0, 1)
  ELSE share_of_name(roots_of(name_tokens, stem), roots_of(text_tokens, stem))

\* _token_overlap(name, text) with the stemmer stem
token_overlap(name, text, stem) ==
  overlap_of(word_tokens(Lower(name)), word_tokens(Lower(text)), stem)

(***************************************************************************)
(* Sanitizer (_sanitize_text of agents/spec_agent.py, and its copy in      *)
(* agents/spec_enricher.py).  The string is a sequence of code points.     *)
(***************************************************************************)
\* SMART_QUOTES: U+2018..U+201B become "'" (39), U+201C..U+201F '"' (34)
SMART_QUOTES == [c \in 8216..8223 |-> IF c <= 8219 THEN 39 ELSE 34]

\* _ZERO_WIDTH: U+200B..U+200F, U+2028, U+2029, U+2060, U+FEFF
ZERO_WIDTH == (8203..8207) \cup {8232, 8233, 8288, 65279}

\* _CTRL_CHARS: [\x00-\x08\x0B\x0C\x0E-\x1F]
CTRL_CHARS == (0..8) \cup {11, 12} \cup (14..31)

\* the characters str.strip() removes: those for which str.isspace() holds
PyWhitespace ==
  (9..13) \cup (28..32) \cup {133, 160, 5760} \cup (8192..8202)
    \cup {8232, 8233, 8239, 8287, 12288}

\* the loop of s.replace(k, v) over SMART_QUOTES
replace_quotes(s) ==
  [k \in 1..Len(s) |-> IF s[k] \in DOMAIN SMART_QUOTES THEN SMART_QUOTES[s[k]] ELSE s[k]]

\* pattern.sub("", s) for a character class
without(s, class) == SelectSeq(s, LAMBDA c : c \notin class)

\* s.replace("\t", "  ")
RECURSIVE replace_tabs(_)
replace_tabs(s) ==
  IF s = << >> THEN << >>
  ELSE (IF Head(s) = 9 THEN << 32, 32 >> ELSE << Head(s) >>) \o replace_tabs(Tail(s))

\* s.strip()
py_strip(s) ==
  IF \A k \in 1..Len(s) : s[k] \in PyWhitespace THEN << >>
  ELSE SubSeq(s, FirstIdx({ k \in 1..Len(s) : s[k] \notin PyWhitespace }),
              LastIdx({ k \in 1..Len(s) : s[k] \notin PyWhitespace }))

\* strip() applied before the removals instead of after them
strip_then_clean(s) ==
  replace_tabs(without(without(py_strip(replace_quotes(s)), ZERO_WIDTH), CTRL_CHARS))

\* lines 20-25
clean_then_strip(s) ==
  py_strip(replace_tabs(without(without(replace_quotes(s), ZERO_WIDTH), CTRL_CHARS)))

\* _sanitize_text(s)
sanitize_text(s) == IF s = << >> THEN s ELSE clean_then_strip(s)

(***************************************************************************)
(* Block extractor (_extract_structured_block of agents/spec_agent.py,     *)
(* and its copy in agents/spec_enricher.py).  A TLA+ string cannot hold    *)
(* the backquote: in the texts of the model "~" stands for it.             *)
(***************************************************************************)
\* the three backquotes of _FENCE_RE
FENCE == "~~~"
FenceTags == << "yaml", "yml", "json" >>

\* the alternative of (yaml|yml|json) that matches at position i, ignoring
\* case; 0 when none does
tag_at(text, i) ==
  FirstIdx({ k \in 1..Len(FenceTags) : StartsWithAt(Lower(text), i, FenceTags[k]) })

\* where the "\n" of \s*?\n is matched from position i, ws being the
\* characters of \s; 0 when it cannot be
newline_from(text, i, ws) ==
  FirstIdx({ n \in i..(RunEnd(text, i, ws) + 1) : Ch(text, n) = "\n" })

\* the first FENCE at or after position i, 0 when there is none
fence_from(text, i) == FirstIdx({ c \in i..Len(text) : StartsWithAt(text, c, FENCE) })

NoBlock == [ok |-> FALSE]

\* (.*?) and the closing fence after the newline at n, for the tag lang
block_after(text, lang, n) ==
  IF n = 0 \/ fence_from(text, n + 1) = 0 THEN NoBlock
  ELSE [ok |-> TRUE, lang |-> lang,
        body |-> SubSeq(text, n + 1, fence_from(text, n + 1) - 1),
        stop |-> fence_from(text, n + 1) + 2]

\* the match with the optional group taken: \s* up to position t, where the
\* tag number k starts
tagged_block(text, t, k, ws) ==
  IF k = 0 THEN NoBlock
  ELSE block_after(text, SubSeq(text, t, t + Len(FenceTags[k]) - 1),
                   newline_from(text, t + Len(FenceTags[k]), ws))

\* the first success of the two ways to match
first_ok(a, b) == IF a.ok THEN a ELSE b

\* _FENCE_RE matched at position p, ws being the characters of \s
fence_match(text, p, ws) ==
  IF ~StartsWithAt(text, p, FENCE) THEN NoBlock
  ELSE first_ok(tagged_block(text, RunEnd(text, p + 3, ws) + 1,
                             tag_at(text, RunEnd(text, p + 3, ws) + 1), ws),
                block_after(text, "", newline_from(text, p + 3, ws)))

\* _FENCE_RE.finditer(text) from position p on: (lang, body) of the
\* successive matches
RECURSIVE fence_blocks(_, _, _)
blocks_after(text, p, m, ws) ==
  IF m.ok THEN << [lang |-> m.lang, body |-> m.body] >> \o fence_blocks(text, m.stop + 1, ws)
  ELSE fence_blocks(text, p + 1, ws)

fence_blocks(text, p, ws) ==
  IF p > Len(text) THEN << >> ELSE blocks_after(text, p, fence_match(text, p, ws), ws)

\* max(blocks, key=lambda b: len(b[1])): the first of the longest bodies
longest(blocks) ==
  blocks[FirstIdx({ i \in 1..Len(blocks) :
                      \A j \in 1..Len(blocks) : Len(blocks[j].body) <= Len(blocks[i].body) })]

\* the first block whose tag, lower-cased, is one of langs; 0 when none
first_tagged(blocks, langs) ==
  FirstIdx({ i \in 1..Len(blocks) : Lower(blocks[i].lang) \in langs })

\* lines 32-40 on the stripped text and its blocks
selected_block(text, blocks) ==
  IF blocks = << >> THEN text
  ELSE IF first_tagged(blocks, {"yaml", "yml"}) # 0
       THEN blocks[first_tagged(blocks, {"yaml", "yml"})].body
  ELSE IF first_tagged(blocks, {"json"}) # 0 THEN blocks[first_tagged(blocks, {"json"})].body
  ELSE longest(blocks).body

block_of(text) == selected_block(text, fence_blocks(text, 1, SpaceSet))

\* _extract_structured_block(text)
extract_structured_block(text) == block_of(Strip(text))

(***************************************************************************)
(* File planner (agents/fileplan_agent.py).  A specification has the shape *)
(* prd_to_spec and enrich_spec give it: meta, stacks and the other         *)
(* sections as JSON values, entities, workflows and requirements as lists  *)
(* of records.                                                             *)
(***************************************************************************)
PlanFile(path, role) == [path |-> path, role |-> role]

\* str.replace(a, b) for single characters a and b
RECURSIVE replace_char(_, _, _)
replace_char(s, a, b) ==
  IF s = "" THEN ""
  ELSE (IF SubSeq(s, 1, 1) = a THEN b ELSE SubSeq(s, 1, 1)) \o replace_char(From(s, 2), a, b)

\* (d.get(k) or "").lower() for a value that is a string or missing
lower_or_empty(d, k) == IF Truthy(Get(d, k)) THEN Lower(Get(d, k).v) ELSE ""

\* _validate_spec(spec) raises
lacks_stacks(spec) ==
  \/ "stacks" \notin DOMAIN spec
  \/ ~IsObj(spec["stacks"])
  \/ ~({"backend", "frontend"} \subseteq DOMAIN spec["stacks"].v)

\* the seven files of lines 35-55
BackendBase ==
  << PlanFile("backend/app/main.py", "entrypoint"),
     PlanFile("backend/app/models/__init__.py", "pkg"),
     PlanFile("backend/app/routes/__init__.py", "pkg"),
     PlanFile("backend/app/workflows/__init__.py", "pkg"),
     PlanFile("tests/test_health.py", "test"),
     PlanFile("backend/requirements.txt", "deps"),
     PlanFile("pytest.ini", "test_config") >>

model_path(ename) == "backend/app/models/" \o ename \o ".py"
route_path(ename) == "backend/app/routes/" \o ename \o "s.py"
workflow_path(wname) == "backend/app/workflows/" \o wname \o ".py"

\* lines 56-73: a model file and a route file for each entity
RECURSIVE entity_files(_)
entity_files(entities) ==
  IF entities = << >> THEN << >>
  ELSE << PlanFile(model_path(Lower(Head(entities).name)), "model"),
          PlanFile(route_path(Lower(Head(entities).name)), "api") >>
         \o entity_files(Tail(entities))

\* lines 75-84: a file for each workflow
workflow_files(workflows) ==
  [k \in 1..Len(workflows) |->
     PlanFile(workflow_path(Lower(replace_char(workflows[k].name, " ", "_"))), "workflow")]

\* _backend_files(spec) for the backend record be
backend_files(spec, be) ==
  IF lower_or_empty(be, "framework") \in {"fastapi", "django"} \/ lower_or_empty(be, "lang") = "python"
  THEN BackendBase \o entity_files(spec["entities"]) \o workflow_files(spec["workflows"])
  ELSE << >>

\* _frontend_files(spec) for the frontend record fe
frontend_files(fe) ==
  IF lower_or_empty(fe, "framework") = "react" /\ lower_or_empty(fe, "lang") = "ts"
  THEN << PlanFile("frontend/index.html", "page"),
          PlanFile("frontend/src/main.tsx", "entry"),
          PlanFile("frontend/tsconfig.json", "tsconfig"),
          PlanFile("frontend/package.json", "deps"),
          PlanFile("frontend/vite.config.ts", "vite") >>
  ELSE << PlanFile("frontend/index.html", "page") >>

\* _infra_files()
infra_files == << PlanFile("infra/docker-compose.yml", "compose") >>

\* spec_to_fileplan(spec): raised, or plan["files"]
spec_to_fileplan(spec) ==
  IF lacks_stacks(spec) THEN [raised |-> TRUE, files |-> << >>]
  ELSE [raised |-> FALSE,
        files |-> backend_files(spec, spec["stacks"].v["backend"].v)
                    \o frontend_files(spec["stacks"].v["frontend"].v) \o infra_files]

(***************************************************************************)
(* File generator (agents/filegen_agent.py): generate_files.  A rendered   *)
(* text is kept as what it was rendered from: its kind and the name of the *)
(* entity, workflow or project behind it.  The renderers are taken to      *)
(* return.                                                                 *)
(***************************************************************************)
MaxRendered == 20   \* plan["files"][:20]

Rendered(kind, of) == [kind |-> kind, of |-> of]
Placeholder == Rendered("todo", "")        \* "// TODO"

\* the output directory the paths are joined to
OutDir == "out"

\* pathlib: name, stem, suffix of a path and the name of its parent
path_name(path) == From(path, LastIdx({ i \in 1..Len(path) : Ch(path, i) = "/" }) + 1)
last_dot(name) == LastIdx({ i \in 2..Len(name) : Ch(name, i) = "." })
path_suffix(path) ==
  LET n == path_name(path) IN IF last_dot(n) = 0 \/ last_dot(n) = Len(n) THEN "" ELSE From(n, last_dot(n))
path_stem(path) ==
  LET n == path_name(path) IN SubSeq(n, 1, Len(n) - Len(path_suffix(path)))
path_parent(path) == SubSeq(path, 1, Len(path) - Len(path_name(path)) - 1)
EndsWith(s, w) == StartsWithAt(s, Len(s) - Len(w) + 1, w)

\* str.rstrip("s"): every trailing s is removed
rstrip_s(s) == SubSeq(s, 1, LastIdx({ i \in 1..Len(s) : Ch(s, i) # "s" }))

\* the entity name a route path stands for (line 887)
route_base(stem) == rstrip_s(stem)

SlugSet == LowerSet \cup {"0", "1", "2", "3", "4", "5", "6", "7", "8", "9", "_"}

\* re.sub(pattern, by, s) for a pattern that matches one character outside
\* keep (runs == FALSE) or a maximal run of them (runs == TRUE)
RECURSIVE sub_outside(_, _, _, _)
sub_outside(s, keep, by, runs) ==
  IF s = "" THEN ""
  ELSE IF Ch(s, 1) \in keep THEN Ch(s, 1) \o sub_outside(From(s, 2), keep, by, runs)
  ELSE by \o sub_outside(From(s, (IF runs THEN RunEnd(s, 1, { Ch(s, i) : i \in 1..Len(s) } \ keep) ELSE 1) + 1),
                         keep, by, runs)

\* _slug(name)
slug(name) == sub_outside(Lower(Strip(name)), SlugSet, "_", TRUE)

\* re.sub(r'[^a-z0-9]', '', s)
alnum_only(s) == sub_outside(s, SlugSet \ {"_"}, "", FALSE)

\* _find_workflow_by_name(workflows, name): index of the workflow, or 0
find_workflow_by_name(workflows, name) ==
  LET name_lower == replace_char(replace_char(Lower(name), "_", "-"), " ", "-")
      direct  == FirstIdx({ k \in 1..Len(workflows) : slug(workflows[k].name) = name_lower })
      cleaned == FirstIdx({ k \in 1..Len(workflows) :
                   alnum_only(slug(workflows[k].name)) = alnum_only(name_lower) })
      partial == FirstIdx({ k \in 1..Len(workflows) :
                   \/ Contains(slug(workflows[k].name), name_lower)
                   \/ Contains(name_lower, slug(workflows[k].name)) })
  IN  IF direct # 0 THEN direct ELSE IF cleaned # 0 THEN cleaned ELSE partial

\* the files the generator renders without the specification (lines 827-840)
FixedFiles ==
  << <<"backend/requirements.txt", "requirements">>, <<"pytest.ini", "pytest_cfg">>,
     <<"tests/test_health.py", "pytest_test">>, <<"frontend/tsconfig.json", "tsconfig">>,
     <<"frontend/vite.config.ts", "vite_config">>, <<"frontend/package.json", "package_json">>,
     <<"infra/docker-compose.yml", "compose">> >>

\* path of a module .py file under the directory dir
module_under(path, dir) ==
  /\ Contains(OutDir \o "/" \o path, "/" \o dir \o "/")
  /\ path_suffix(path) = ".py"
  /\ path_name(path) # "__init__.py"

\* the entity name of <...>repositories/<name>_repository.py, or "" (kind
\* is "repository" or "service", dir "repositories" or "services")
layer_entity(path, dir, kind) ==
  LET tail == "_" \o kind \o ".py"
  IN  IF EndsWith(path_name(path), tail) /\ Len(path_name(path)) > Len(tail)
         /\ EndsWith(path_parent(OutDir \o "/" \o path), dir)
      THEN SubSeq(path_name(path), 1, Len(path_name(path)) - Len(tail))
      ELSE ""

\* rendered from an entity looked up by name, or the placeholder
entity_text(spec, kind, name) ==
  LET en == find_entity_by_name(spec["entities"], name)
  IN  IF en.found THEN Rendered(kind, en.entity.name) ELSE Placeholder

\* the project name of the specification
project_name(spec) ==
  IF "meta" \in DOMAIN spec /\ "name" \in DOMAIN spec["meta"].v THEN spec["meta"].v["name"].v
  ELSE "project"

\* the text written for one plan entry (lines 821-905)
render_item(spec, path) ==
  LET fixed == FirstIdx({ k \in 1..Len(FixedFiles) : EndsWith(path, FixedFiles[k][1]) })
      full  == OutDir \o "/" \o path
  IN  IF fixed # 0
      THEN Rendered(FixedFiles[fixed][2], IF FixedFiles[fixed][2] = "compose" THEN project_name(spec) ELSE "")
      ELSE IF path_name(path) = "__init__.py"
      THEN (IF path_name(path_parent(full)) \in {"database", "repositories", "services"}
            THEN Rendered("module", path_name(path_parent(full))) ELSE Placeholder)
      ELSE IF path_name(path) \in {"connection.py", "base.py", "migrations.py"} /\ Contains(full, "database")
      THEN Rendered("database", path_stem(path))
      ELSE IF Contains(full, "_repository.py")
      THEN (IF layer_entity(path, "repositories", "repository") = "" THEN Placeholder
            ELSE entity_text(spec, "repository", layer_entity(path, "repositories", "repository")))
      ELSE IF Contains(full, "_service.py")
      THEN (IF layer_entity(path, "services", "service") = "" THEN Placeholder
            ELSE entity_text(spec, "service", layer_entity(path, "services", "service")))
      ELSE IF module_under(path, "models") THEN entity_text(spec, "model", path_stem(path))
      ELSE IF module_under(path, "routes") THEN entity_text(spec, "route", route_base(path_stem(path)))
      ELSE IF module_under(path, "workflows")
      THEN (LET wf == find_workflow_by_name(spec["workflows"], path_stem(path))
            IN  IF wf # 0 THEN Rendered("workflow", spec["workflows"][wf].name) ELSE Placeholder)
      ELSE Placeholder

\* the schema blocks of the route entries whose entity is found (lines 908-916)
RECURSIVE schema_blocks(_, _)
schema_blocks(spec, items) ==
  IF items = << >> THEN << >>
  ELSE LET path == Head(items).path
           en   == find_entity_by_name(spec["entities"], route_base(path_stem(path)))
       IN  (IF module_under(path, "routes") /\ en.found THEN << en.entity.name >> ELSE << >>)
             \o schema_blocks(spec, Tail(items))

\* _acceptance_to_tests(req): the path of the test file of a requirement
acceptance_path(req) ==
  "tests/test_" \o
    sub_outside(IF "name" \in DOMAIN req THEN Lower(req.name) ELSE "unnamed_requirement",
                SlugSet \cup UpperSet, "_", FALSE) \o ".py"

SchemasPath == "backend/app/routes/schemas.py"
DocPaths == {"docs/spec.json", "docs/workflows.md", "docs/requirements.md", "docs/business_rules.md"}

\* the first n entries of a list
first_n(items, n) == SubSeq(items, 1, IF Len(items) < n THEN Len(items) ELSE n)

\* the entries generate_files goes through (line 818)
rendered_entries(items) == first_n(items, MaxRendered)

\* the text each path holds after the entries were written in order, with
\* schemas.py and the acceptance tests written after them
written_texts(spec, items) ==
  LET blocks == schema_blocks(spec, items)
      reqs   == spec["requirements"]
      paths  == { items[k].path : k \in 1..Len(items) }
                  \cup (IF blocks # << >> THEN {SchemasPath} ELSE {})
                  \cup { acceptance_path(reqs[k]) : k \in 1..Len(reqs) }
  IN  [ p \in paths |->
          IF \E k \in 1..Len(reqs) : acceptance_path(reqs[k]) = p
          THEN Rendered("acceptance", p)
          ELSE IF p = SchemasPath /\ blocks # << >> THEN Rendered("schemas", blocks)
          ELSE render_item(spec, p) ]

\* generate_files(spec, plan, out_dir, prd_text): the returned mapping and
\* the paths written under the output directory
generate_files(spec, files, prd) ==
  LET texts == written_texts(spec, rendered_entries(files))
  IN  [files |-> texts,
       disk  |-> DOMAIN texts \cup DocPaths \cup (IF prd # "" THEN {"docs/PRD.md"} ELSE {})]

(***************************************************************************)
(* Pipeline (pipeline.py) with USE_LLM unset.  The cache file beside the   *)
(* PRD holds the JSON text of a specification, kept as the value that text *)
(* denotes, or a text json.loads rejects.                                  *)
(***************************************************************************)
\* a file that does not exist
NoFile == [exists |-> FALSE]

\* json.dumps(spec, indent=2) written to the cache file
CacheOf(spec) == [exists |-> TRUE, loads |-> TRUE, spec |-> spec]

\* a cache file whose text json.loads rejects
BrokenCache == [exists |-> TRUE, loads |-> FALSE]

\* lines 38-39 and 44-45: prd_to_spec, then enrich_spec on its result
enriched_after(a, prd) ==
  IF a.raised THEN [raised |-> TRUE, spec |-> << >>]
  ELSE enrich_spec(a.spec, prd, FALSE, << >>, NoCall, NoCall)

derived_spec(prd) == enriched_after(prd_to_spec(prd, FALSE, << >>), prd)

\* lines 28-47: the specification of a run, the cached one when the cache
\* file loads, whatever the PRD text is now
run_spec(cache, prd) ==
  IF cache.exists /\ cache.loads THEN [raised |-> FALSE, spec |-> cache.spec, fresh |-> FALSE]
  ELSE [raised |-> derived_spec(prd).raised, spec |-> derived_spec(prd).spec, fresh |-> TRUE]

\* lines 41 and 46: the cache file after the specification was obtained
cache_after(cache, r) == IF r.fresh /\ ~r.raised THEN CacheOf(r.spec) ELSE cache

\* lines 49-58: the plan and the files of a specification
planned(spec, prd) ==
  LET plan == spec_to_fileplan(spec)
      out  == generate_files(spec, plan.files, prd)
  IN  IF plan.raised THEN [raised |-> TRUE, plan |-> << >>, files |-> << >>, disk |-> {}]
      ELSE [raised |-> FALSE, plan |-> plan.files, files |-> out.files,
            disk |-> out.disk \cup {"docs/PRD.md"}]

(***************************************************************************)
(* Inputs: PRD texts and model answers                                     *)
(***************************************************************************)
\* the fragments PRD texts are made of: single lines, and one block with a
\* name line, a heading and bullets
PRDLines ==
  { "Req: Login",
    "req: login",
    "must- api exposes get /health returning 200 with {status:'ok'}",
    "total must not be less than 0",
    "status can be one of: draft, active",
    "price must be at least 10",
    "code is required and unique",
    "name is required",
    "total = price",
    "when health check fails: notify admin",
    "on signup: send email, log event",
    "entity: Order(id, total)",
    "project: Shop Mui\n# Order\n- id\n- id",
    "" }

\* every line terminated by "\n", so that splitlines gives the lines back
RECURSIVE JoinLines(_)
JoinLines(ls) == IF ls = << >> THEN "" ELSE Head(ls) \o "\n" \o JoinLines(Tail(ls))

SeqsUpTo(S, n) == UNION { [1..k -> S] : k \in 0..n }

PRDTexts == { JoinLines(ls) : ls \in SeqsUpTo(PRDLines, MaxLines) }

\* the PRD texts explored in model-assisted mode, where the answers of the
\* model vary as well: every single line, and one text with a repeated line
LlmPRDTexts ==
  { JoinLines(<< l >>) : l \in PRDLines } \cup { JoinLines(<< "Req: Login", "req: login" >>) }

\* elements of the array the model answers for requirements
ReqItems ==
  { JObj([text |-> JStr("Login")]),
    JObj([text |-> JStr(" login "), id |-> JStr("R-0001")]),
    JObj([text |-> JStr("Export"), id |-> JStr("R-0001")]),
    JObj([text |-> JStr("Audit"), id |-> JStr("REQ-7"), acceptance |-> JStr("none")]),
    JObj([text |-> JStr("Ping"), id |-> JStr("R-0002"),
          acceptance |-> JList(<< JStr(HealthAssertion) >>)]),
    JObj([text |-> JStr("Archive"), id |-> JNull]),
    JObj([text |-> JNum(5)]),
    JObj([id |-> JStr("R-0009")]),
    JStr("Login") }

ReqOutcomes ==
  {Raises, Unparsable, Parsed(JObj([requirements |-> JList(<< >>)]))}
    \cup { Parsed(JList(q)) : q \in SeqsUpTo(ReqItems, MaxItems) }

\* elements of the array the model answers for business rules
RuleItems ==
  { JObj([expr |-> JStr("total >= 0"), target |-> JStr("Invoice.total")]),
    JObj([id |-> JStr("BR-0001"), expr |-> JStr("qty > 1"), kind |-> JStr("constraint")]),
    JObj([id |-> JStr("rule-1"), expr |-> JStr("unique(email)")]),
    JObj([id |-> JStr("BR-0002"), target |-> JStr("Order.total")]),
    JNum(3) }

RuleOutcomes ==
  {Raises, Unparsable, Parsed(JObj([rules |-> JList(<< >>)]))}
    \cup { Parsed(JList(q)) : q \in SeqsUpTo(RuleItems, MaxItems) }

\* answers of the model to the entity/workflow prompt
OrderEntity ==
  JObj([name |-> JStr("Order"),
        fields |-> JList(<< JObj([name |-> JStr("id"), type |-> JStr("uuid"), pk |-> JBool(TRUE)]),
                            JObj([name |-> JStr("id")]),
                            JObj([name |-> JStr("total"), type |-> JNum(2)]) >>)])
CheckoutFlow ==
  JObj([name |-> JStr("Checkout"), trigger |-> JStr("http"),
        actions |-> JList(<< JStr("charge card") >>)])
ProbeFlow == JObj([trigger |-> JStr("Health probe"), actions |-> JStr("ping")])
MonitorFlow == JObj([name |-> JStr("Monitor"), actions |-> JList(<< JStr("check /health") >>)])
BrokenFlow == JObj([name |-> JStr("Broken"), actions |-> JNum(5)])

EnrichOutcomes ==
  { Raises, Unparsable, Parsed(JNull),
    Parsed(JObj([entities |-> JList(<< OrderEntity, JObj([name |-> JStr(" ")]) >>)])),
    Parsed(JObj([workflows |-> JList(<< CheckoutFlow >>)])),
    Parsed(JObj([entities |-> JList(<< OrderEntity >>), workflows |-> JList(<< ProbeFlow >>)])),
    Parsed(JObj([workflows |-> JList(<< MonitorFlow >>)])),
    Parsed(JObj([workflows |-> JList(<< BrokenFlow >>)])) }

\* what the two extractor calls inside enrich_spec get from the model
EnrichReqOutcomes == { Raises, Parsed(JList(<< JObj([text |-> JStr("Archive"), id |-> JNull]) >>)) }
EnrichRuleOutcomes == { Raises, Unparsable }

\* specifications handed to enrich_spec
BaseSpec ==
  [meta |-> [name |-> "my-app", domain |-> "App", version |-> "0.1.0"],
   stacks |-> [backend |-> [framework |-> "fastapi", lang |-> "python"],
               frontend |-> [framework |-> "react", lang |-> "ts"]],
   entities |-> << >>, workflows |-> << >>, requirements |-> << >>]

\* a specification that already holds lists of its own and the other sections
FullSpec ==
  [meta |-> [name |-> "shop", domain |-> "Retail", version |-> "0.2.0"],
   stacks |-> [backend |-> [framework |-> "django", lang |-> "python"],
               frontend |-> [framework |-> "vue", lang |-> "js"]],
   integrations |-> << "stripe" >>,
   non_functional |-> [latency |-> "low"],
   ci_cd |-> [provider |-> "github"],
   constraints |-> [libraries |-> << >>],
   entities |-> << Entity("Legacy", << Field("id") >>) >>,
   workflows |-> << Workflow("Health", "http", << "GET /health" >>) >>,
   requirements |-> << Requirement("REQ-009", "Kept from an earlier run", "backend", "must", << >>) >>,
   business_rules |-> << Rule("BR-009", "Legacy", "invariant", "id > 0", "bad id") >>]

SpecInputs == { BaseSpec, FullSpec }

\* answers of the model to the spec synthesis prompt
SynthOutcomes ==
  { Raises, Unparsable,
    Fenced(JObj([meta |-> JObj([name |-> JStr("shop")])])),
    Parsed(JObj(<< >>)),
    Parsed(JNull),
    Parsed(JObj([entities |-> JStr("unspecified")])),
    Parsed(JObj([meta |-> JStr("unspecified")])),
    Parsed(JList(<< JNum(1) >>)) }

\* answers of the model to the spec synthesis prompt that prd_to_spec goes on
\* to normalize
StacksAnswer(be, fe) == Parsed(JObj([stacks |-> JObj([backend |-> JObj(be), frontend |-> JObj(fe)])]))

SpecAnswers ==
  { Raises, Unparsable,
    Parsed(JObj([entities |-> JStr("unspecified")])),
    Parsed(JList(<< JNum(1) >>)),
    Parsed(JObj(<< >>)),
    StacksAnswer([framework |-> JStr("Django"), lang |-> JStr(" Python ")],
                 [framework |-> JStr("Next.js"), lang |-> JStr("TypeScript")]),
    StacksAnswer([framework |-> JStr("Node.js"), lang |-> JStr("")],
                 [framework |-> JNull, ui |-> JStr("unspecified")]),
    StacksAnswer([framework |-> JNum(5)], << >>) }

\* values handed to _coerce_to_schema
CoerceInputs ==
  { JNull, JObj(<< >>), JNum(0), JStr("spec"), JList(<< JNum(1) >>),
    JObj([meta |-> JStr("unspecified")]),
    JObj([meta |-> JObj([name |-> JStr(" ")]), extra |-> JNum(1)]),
    JObj([stacks |-> JList(<< >>)]),
    JObj([stacks |-> JObj([backend |-> JNum(5)])]),
    JObj([stacks |-> JObj([frontend |-> JObj([ui |-> JStr("mui")])]), entities |-> JNull]),
    JObj([entities |-> JStr("unspecified")]),
    JObj([integrations |-> JList(<< >>)]) }

\* lines of PRD texts that name technologies, or none
StackLines ==
  { "Backend: Django on Python",
    "database: PostgreSQL",
    "store data in mysql",
    "frontend in Vue with javascript",
    "deploy to aws with kubernetes",
    "an express checkout for orders",
    "" }

StackPRDTexts == { JoinLines(ls) : ls \in SeqsUpTo(StackLines, MaxLines) }

\* entity lists and candidate names handed to _find_entity_by_name
EntityNames == {"Person", "person", "Persons", "People", "Mouse"}
EntityLists == { [k \in 1..Len(ns) |-> Entity(ns[k], << >>)] : ns \in SeqsUpTo(EntityNames, MaxEntities) }
CandidateNames == {"person", "PERSONS", "persons", "People", "mice", "order"}

\* specifications handed to the file planner: the stacks of a Python and
\* React project, of another project, and a specification without stacks
GenStacks(bf, bl, ff, fl) ==
  JObj([backend  |-> JObj([framework |-> JStr(bf), lang |-> JStr(bl)]),
        frontend |-> JObj([framework |-> JStr(ff), lang |-> JStr(fl)]),
        database |-> JObj([type |-> JStr("sqlite")])])

GenSpec(stacks, names, workflows, requirements) ==
  [meta |-> JObj([name |-> JStr("shop")]),
   stacks |-> stacks,
   constraints |-> JObj(<< >>),
   entities |-> [k \in 1..Len(names) |-> Entity(names[k], << Field("id") >>)],
   workflows |-> [k \in 1..Len(workflows) |-> Workflow(workflows[k], "", << >>)],
   requirements |-> requirements,
   business_rules |-> << >>]

PlannedNames == {"Order", "Address", "Status"}
PlannedExtras ==
  { << << >>, << >> >>,
    << << "Place Order" >>, << Requirement("REQ-001", "Customers place orders", "backend", "must", << >>) >> >>,
    << << "Ship-Order", "audit log" >>, << >> >> }

GenSpecs ==
  { GenSpec(GenStacks("fastapi", "python", "react", "ts"), ns, x[1], x[2]) :
      ns \in SeqsUpTo(PlannedNames, MaxPlanned), x \in PlannedExtras }
  \cup { GenSpec(GenStacks("express", "Python", "vue", "js"), << "Order" >>, << >>, << >>),
         GenSpec(GenStacks("express", "node", "react", "ts"), << "Order" >>, << "Place Order" >>, << >>),
         GenSpec(JObj([backend |-> JObj(<< >>)]), << "Order" >>, << >>, << >>) }

\* the PRD texts the pipeline is run on
PipelinePRDs ==
  { "",
    "entity: Order(id, total)",
    "entity: Order(id)\nentity: Order(id, total)",
    "entity: Address(street)\nwhen signup: send email",
    "when Place Order: reserve stock\nwhen place order: notify admin" }

\* names and texts handed to _token_overlap, the tokens they are made of and
\* the roots a stemmer may give them
OverlapNames == {"", " - ", "Order", "order items", "Orders, orders", "order total items"}
OverlapTexts == {"", "ORDER", "Orders: total", "items of order"}
OverlapTokens == {"order", "orders", "total", "items", "of"}
OverlapRoots == {"ord", "it"}
Stemmers == [OverlapTokens -> OverlapRoots]

\* strings handed to _sanitize_text: a smart quote of each kind, a zero-width
\* space, a line separator (zero-width for the sanitizer, white space for
\* strip), a form feed, a tab, a space, a no-break space and a letter
SanitizeChars == {8216, 8221, 8203, 8232, 12, 9, 32, 160, 97}
SanitizeInputs == SeqsUpTo(SanitizeChars, MaxChars)

\* texts handed to _extract_structured_block, made of these pieces
BlockPieces ==
  { "~~~yaml\na: 1\n~~~",
    "~~~ YML \nb: 2\n~~~",
    "~~~json\n{}\n~~~",
    "~~~\nplain body\n~~~",
    "~~~\nx\n~~~",
    "~~~\njson\n{}\n~~~",
    "~~~python\npass\n~~~",
    "no fence",
    " ",
    "\n" }

RECURSIVE Concat(_)
Concat(ps) == IF ps = << >> THEN "" ELSE Head(ps) \o Concat(Tail(ps))

BlockInputs == { Concat(ps) : ps \in SeqsUpTo(BlockPieces, MaxPieces) }

(***************************************************************************)
(* State                                                                   *)
(***************************************************************************)
VARIABLES
  prd_text,    \* the PRD text handed to the agents
  use_llm,     \* os.getenv("USE_LLM","false").lower() == "true"
  call,        \* the agent function that has been called, "none" before
  status,      \* "idle", "running", "returned" or "raised"
  req_resp,    \* what the model call of requirements_agent._llm_extract did
  reqs,        \* extract_requirements: the list reqs before post-processing
  reqs_out,    \* extract_requirements: the returned list
  rule_resp,   \* what the model call of _llm_rules did
  rules_out,   \* extract_rules: the returned list
  enrich_resp, \* what the model calls of spec_enricher._llm_extract did
  spec_in,     \* enrich_spec: the specification object passed in, after the call
  spec_out,    \* enrich_spec: the specification returned
  msgs,        \* _llm_prd_to_spec_data: the conversation msgs
  sent,        \* _llm_prd_to_spec_data: the msgs sent with each model call
  synth_resp,  \* _llm_prd_to_spec_data: what each model call did
  synth_error, \* _llm_prd_to_spec_data: what it raised
  synth_data,  \* _llm_prd_to_spec_data: what it returned
  pts_resp,    \* prd_to_spec: what the model calls of the synthesis did
  pts_draft,   \* prd_to_spec: data before its normalization (line 203)
  pts_spec,    \* prd_to_spec: the returned specification
  coerce_in,   \* _coerce_to_schema: the value passed in
  coerce_out,  \* _coerce_to_schema: raised, or the draft returned
  find_entities, \* _find_entity_by_name: the entity list passed in
  find_name,   \* _find_entity_by_name: the candidate name passed in
  find_result, \* _find_entity_by_name: the entity returned, or none
  overlap_in,  \* _token_overlap: name, text and the stemmer in use
  overlap_out, \* _token_overlap: the ratio returned
  san_in,      \* _sanitize_text: the string passed in, as code points
  san_out,     \* _sanitize_text: the string returned
  block_in,    \* _extract_structured_block: the text passed in
  block_out,   \* _extract_structured_block: the text returned
  gen_spec,    \* the specification handed to spec_to_fileplan and generate_files
  gen_plan,    \* spec_to_fileplan: the paths of plan["files"], in order
  gen_files,   \* generate_files: the mapping returned, path to text
  gen_disk,    \* generate_files: the paths written under the output directory
  prd_file,    \* pipeline: the content of the PRD file
  cache_file,  \* pipeline: the content of the cache file beside it
  runs         \* pipeline: the runs made so far

vars == << prd_text, use_llm, call, status, req_resp, reqs, reqs_out,
           rule_resp, rules_out, enrich_resp, spec_in, spec_out,
           msgs, sent, synth_resp, synth_error, synth_data,
           pts_resp, pts_draft, pts_spec, coerce_in, coerce_out,
           find_entities, find_name, find_result, overlap_in, overlap_out,
           san_in, san_out, block_in, block_out, gen_spec, gen_plan, gen_files, gen_disk,
           prd_file, cache_file, runs >>

req_vars == << req_resp, reqs, reqs_out >>
rule_vars == << rule_resp, rules_out >>
enrich_vars == << enrich_resp, spec_in, spec_out >>
synth_vars == << msgs, sent, synth_resp, synth_error, synth_data >>
spec_vars == << pts_resp, pts_draft, pts_spec >>
coerce_vars == << coerce_in, coerce_out >>
resolver_vars == << find_entities, find_name, find_result >>
overlap_vars == << overlap_in, overlap_out >>
text_vars == << san_in, san_out, block_in, block_out >>
gen_vars == << gen_spec, gen_plan, gen_files, gen_disk >>
pipe_vars == << prd_file, cache_file, runs >>
filegen_vars == << resolver_vars, overlap_vars, gen_vars >>

\* no agent function has been called yet
NothingCalled ==
  /\ call = "none"
  /\ status = "idle"
  /\ req_resp = NoCall
  /\ reqs = << >>
  /\ reqs_out = << >>
  /\ rule_resp = NoCall
  /\ rules_out = << >>
  /\ enrich_resp = << >>
  /\ spec_in = << >>
  /\ spec_out = << >>
  /\ msgs = << >>
  /\ sent = << >>
  /\ synth_resp = << >>
  /\ synth_error = "none"
  /\ synth_data = JNull
  /\ pts_resp = << >>
  /\ pts_draft = << >>
  /\ pts_spec = << >>
  /\ coerce_in = JNull
  /\ coerce_out = [raised |-> FALSE]

\* the entity resolver has no arguments yet
ResolverIdle ==
  /\ find_entities = << >>
  /\ find_name = ""
  /\ find_result = NoEntity

OverlapIdle ==
  /\ overlap_in = [name |-> "", text |-> "", stem |-> << >>]
  /\ overlap_out = Ratio(0, 1)

GenerateIdle ==
  /\ gen_spec = << >>
  /\ gen_plan = << >>
  /\ gen_files = << >>
  /\ gen_disk = {}

FilegenIdle == ResolverIdle /\ OverlapIdle /\ GenerateIdle

TextIdle ==
  /\ san_in = << >>
  /\ san_out = << >>
  /\ block_in = ""
  /\ block_out = ""

PipelineIdle ==
  /\ prd_file = ""
  /\ cache_file = NoFile
  /\ runs = 0

Init ==
  /\ use_llm \in BOOLEAN
  /\ prd_text \in (IF use_llm THEN LlmPRDTexts ELSE PRDTexts)
  /\ NothingCalled
  /\ FilegenIdle
  /\ TextIdle
  /\ PipelineIdle

\* extract_requirements(prd_text)
ExtractRequirements ==
  /\ call = "none"
  /\ \E o \in (IF use_llm THEN ReqOutcomes ELSE {NoCall}) :
     \E r \in {extract_requirements(prd_text, use_llm, o)} :
           /\ req_resp' = o
           /\ reqs' = r.reqs
           /\ reqs_out' = r.out
           /\ status' = IF r.raised THEN "raised" ELSE "returned"
  /\ call' = "extract_requirements"
  /\ UNCHANGED << prd_text, use_llm, rule_vars, enrich_vars, synth_vars, spec_vars, coerce_vars, filegen_vars, text_vars, pipe_vars >>

\* extract_rules(prd_text)
ExtractRules ==
  /\ call = "none"
  /\ \E o \in (IF use_llm THEN RuleOutcomes ELSE {NoCall}) :
     \E r \in {extract_rules(prd_text, use_llm, o)} :
           /\ rule_resp' = o
           /\ rules_out' = r.out
           /\ status' = IF r.raised THEN "raised" ELSE "returned"
  /\ call' = "extract_rules"
  /\ UNCHANGED << prd_text, use_llm, req_vars, enrich_vars, synth_vars, spec_vars, coerce_vars, filegen_vars, text_vars, pipe_vars >>

\* enrich_spec(spec, prd_text)
EnrichSpec ==
  /\ call = "none"
  /\ \E spec \in SpecInputs :
     \E os \in (IF use_llm THEN CallSeqs(EnrichOutcomes, enrich_retried) ELSE {<< >>}) :
     \E ro \in (IF use_llm THEN EnrichReqOutcomes ELSE {NoCall}) :
     \E lo \in (IF use_llm THEN EnrichRuleOutcomes ELSE {NoCall}) :
     \E r \in {enrich_spec(spec, prd_text, use_llm, os, ro, lo)} :
     \E q \in {extract_requirements(prd_text, use_llm, ro)} :
           /\ spec_in' = input_after_copy(spec, r)
           /\ enrich_resp' = os
           /\ req_resp' = ro
           /\ rule_resp' = IF q.raised THEN NoCall ELSE lo
           /\ spec_out' = r.spec
           /\ status' = IF r.raised THEN "raised" ELSE "returned"
  /\ call' = "enrich_spec"
  /\ UNCHANGED << prd_text, use_llm, reqs, reqs_out, rules_out, synth_vars, spec_vars, coerce_vars, filegen_vars, text_vars, pipe_vars >>

\* _llm_prd_to_spec_data(prd_text) is entered (lines 111-130)
StartSpecSynthesis ==
  /\ call = "none"
  /\ use_llm
  /\ call' = "_llm_prd_to_spec_data"
  /\ status' = "running"
  /\ msgs' = InitialMessages
  /\ UNCHANGED << prd_text, use_llm, req_vars, rule_vars, enrich_vars,
                  sent, synth_resp, synth_error, synth_data, spec_vars, coerce_vars, filegen_vars, text_vars, pipe_vars >>

\* one iteration of its loop; the RuntimeError of line 161 follows the third
\* failed iteration
SynthesisAttempt ==
  /\ call = "_llm_prd_to_spec_data"
  /\ status = "running"
  /\ Len(sent) < MaxAttempts
  /\ \E o \in SynthOutcomes :
     \E a \in {synth_attempt(o, prd_text)} :
           /\ sent' = Append(sent, msgs)
           /\ synth_resp' = Append(synth_resp, o)
           /\ CASE a.kind = "return" ->
                     /\ status' = "returned"
                     /\ synth_data' = a.data
                     /\ UNCHANGED << msgs, synth_error >>
                [] a.kind = "raise" ->
                     /\ status' = "raised"
                     /\ synth_error' = a.error
                     /\ UNCHANGED << msgs, synth_data >>
                [] OTHER ->
                     /\ msgs' = msgs \o a.append
                     /\ status' = IF Len(sent) + 1 = MaxAttempts THEN "raised" ELSE "running"
                     /\ synth_error' = IF Len(sent) + 1 = MaxAttempts THEN "RuntimeError" ELSE "none"
                     /\ UNCHANGED synth_data
  /\ UNCHANGED << prd_text, use_llm, call, req_vars, rule_vars, enrich_vars,
                  spec_vars, coerce_vars, filegen_vars, text_vars, pipe_vars >>

\* prd_to_spec(prd_text)
PrdToSpec ==
  /\ call = "none"
  /\ \E os \in (IF use_llm THEN CallSeqs(SpecAnswers, synth_retried) ELSE {<< >>}) :
     \E r \in {prd_to_spec(prd_text, use_llm, os)} :
           /\ pts_resp' = os
           /\ pts_draft' = r.draft
           /\ pts_spec' = r.spec
           /\ status' = IF r.raised THEN "raised" ELSE "returned"
  /\ call' = "prd_to_spec"
  /\ UNCHANGED << prd_text, use_llm, req_vars, rule_vars, enrich_vars, synth_vars, coerce_vars,
                 filegen_vars, text_vars, pipe_vars >>

\* _coerce_to_schema(data, prd_text), which only the model path calls
CoerceToSchema ==
  /\ call = "none"
  /\ use_llm
  /\ \E x \in CoerceInputs :
     \E r \in {coerce_to_schema(x, prd_text)} :
           /\ coerce_in' = x
           /\ coerce_out' = r
           /\ status' = IF r.raised THEN "raised" ELSE "returned"
  /\ call' = "_coerce_to_schema"
  /\ UNCHANGED << prd_text, use_llm, req_vars, rule_vars, enrich_vars, synth_vars, spec_vars,
                 filegen_vars, text_vars, pipe_vars >>

Next ==
  \/ ExtractRequirements
  \/ ExtractRules
  \/ EnrichSpec
  \/ StartSpecSynthesis
  \/ SynthesisAttempt
  \/ PrdToSpec
  \/ CoerceToSchema

Spec == Init /\ [][Next]_vars

\* prd_to_spec in heuristic mode on PRD texts that name technologies
StackInit ==
  /\ use_llm = FALSE
  /\ prd_text \in StackPRDTexts
  /\ NothingCalled
  /\ FilegenIdle
  /\ TextIdle
  /\ PipelineIdle

StackNext == PrdToSpec

StackSpec == StackInit /\ [][StackNext]_vars

\* The file generator's pure functions, each applied to inputs of its own
FilegenInit ==
  /\ use_llm = FALSE
  /\ prd_text = ""
  /\ NothingCalled
  /\ TextIdle
  /\ PipelineIdle
  /\ find_result = NoEntity
  /\ overlap_out = Ratio(0, 1)
  /\ \/ /\ find_entities \in EntityLists
        /\ find_name \in CandidateNames
        /\ overlap_in = [name |-> "", text |-> "", stem |-> << >>]
        /\ GenerateIdle
     \/ /\ overlap_in \in [name : OverlapNames, text : OverlapTexts, stem : Stemmers]
        /\ find_entities = << >>
        /\ find_name = ""
        /\ GenerateIdle
     \/ /\ gen_spec \in GenSpecs
        /\ gen_plan = << >>
        /\ gen_files = << >>
        /\ gen_disk = {}
        /\ ResolverIdle
        /\ overlap_in = [name |-> "", text |-> "", stem |-> << >>]

\* _find_entity_by_name(entities, name)
FindEntityByName ==
  /\ call = "none"
  /\ ~ResolverIdle
  /\ call' = "_find_entity_by_name"
  /\ status' = "returned"
  /\ find_result' = find_entity_by_name(find_entities, find_name)
  /\ UNCHANGED << prd_text, use_llm, req_vars, rule_vars, enrich_vars, synth_vars, spec_vars,
                  coerce_vars, find_entities, find_name, overlap_vars, gen_vars,
                  text_vars, pipe_vars >>

\* _token_overlap(name, text)
TokenOverlap ==
  /\ call = "none"
  /\ ~OverlapIdle
  /\ call' = "_token_overlap"
  /\ status' = "returned"
  /\ overlap_out' = token_overlap(overlap_in.name, overlap_in.text, overlap_in.stem)
  /\ UNCHANGED << prd_text, use_llm, req_vars, rule_vars, enrich_vars, synth_vars, spec_vars,
                  coerce_vars, resolver_vars, overlap_in, gen_vars, text_vars, pipe_vars >>

\* spec_to_fileplan(spec)
SpecToFileplan ==
  /\ call = "none"
  /\ gen_spec # << >>
  /\ call' = "spec_to_fileplan"
  /\ \E plan \in {spec_to_fileplan(gen_spec)} :
       /\ status' = IF plan.raised THEN "raised" ELSE "returned"
       /\ gen_plan' = plan.files
  /\ UNCHANGED << prd_text, use_llm, req_vars, rule_vars, enrich_vars, synth_vars, spec_vars,
                  coerce_vars, resolver_vars, overlap_vars, gen_spec, gen_files, gen_disk,
                  text_vars, pipe_vars >>

\* generate_files(spec, plan, out_dir) on the plan spec_to_fileplan returned
GenerateFiles ==
  /\ call = "spec_to_fileplan"
  /\ status = "returned"
  /\ call' = "generate_files"
  /\ \E out \in {generate_files(gen_spec, gen_plan, prd_text)} :
       /\ gen_files' = out.files
       /\ gen_disk' = out.disk
  /\ UNCHANGED << prd_text, use_llm, status, req_vars, rule_vars, enrich_vars, synth_vars, spec_vars,
                  coerce_vars, resolver_vars, overlap_vars, gen_spec, gen_plan,
                  text_vars, pipe_vars >>

FilegenNext ==
  \/ FindEntityByName
  \/ TokenOverlap
  \/ SpecToFileplan
  \/ GenerateFiles

FilegenSpec == FilegenInit /\ [][FilegenNext]_vars

\* The sanitizer and the block extractor, each applied to inputs of its own
TextInit ==
  /\ use_llm = FALSE
  /\ prd_text = ""
  /\ NothingCalled
  /\ FilegenIdle
  /\ PipelineIdle
  /\ san_out = << >>
  /\ block_out = ""
  /\ \/ /\ san_in \in SanitizeInputs
        /\ block_in = ""
     \/ /\ block_in \in BlockInputs \ {""}
        /\ san_in = << >>

\* _sanitize_text(s)
SanitizeText ==
  /\ call = "none"
  /\ block_in = ""
  /\ call' = "_sanitize_text"
  /\ status' = "returned"
  /\ san_out' = sanitize_text(san_in)
  /\ UNCHANGED << prd_text, use_llm, req_vars, rule_vars, enrich_vars, synth_vars, spec_vars,
                  coerce_vars, filegen_vars, san_in, block_in, block_out, pipe_vars >>

\* _extract_structured_block(text)
ExtractStructuredBlock ==
  /\ call = "none"
  /\ san_in = << >>
  /\ call' = "_extract_structured_block"
  /\ status' = "returned"
  /\ block_out' = extract_structured_block(block_in)
  /\ UNCHANGED << prd_text, use_llm, req_vars, rule_vars, enrich_vars, synth_vars, spec_vars,
                  coerce_vars, filegen_vars, san_in, san_out, block_in, pipe_vars >>

TextNext ==
  \/ SanitizeText
  \/ ExtractStructuredBlock

TextSpec == TextInit /\ [][TextNext]_vars

\* Successive runs of the pipeline on one PRD path, between which the PRD
\* file is edited and the cache file is deleted or damaged
PipelineInit ==
  /\ use_llm = FALSE
  /\ prd_text = ""
  /\ NothingCalled
  /\ FilegenIdle
  /\ TextIdle
  /\ prd_file \in PipelinePRDs
  /\ cache_file = NoFile
  /\ runs = 0

\* pipeline(prd, out)
RunPipeline ==
  /\ runs < MaxRuns
  /\ runs' = runs + 1
  /\ prd_text' = prd_file
  /\ call' = "pipeline"
  /\ \E r \in {run_spec(cache_file, prd_file)} :
       /\ cache_file' = cache_after(cache_file, r)
       /\ gen_spec' = r.spec
       /\ \E out \in {IF r.raised THEN [raised |-> TRUE, plan |-> << >>, files |-> << >>, disk |-> {}]
                       ELSE planned(r.spec, prd_file)} :
            /\ status' = IF out.raised THEN "raised" ELSE "returned"
            /\ gen_plan' = out.plan
            /\ gen_files' = out.files
            /\ gen_disk' = out.disk
  /\ UNCHANGED << use_llm, req_vars, rule_vars, enrich_vars, synth_vars, spec_vars, coerce_vars,
                  resolver_vars, overlap_vars, text_vars, prd_file >>

\* the PRD file is edited between two runs
EditPrd ==
  /\ \E text \in PipelinePRDs \ {prd_file} : prd_file' = text
  /\ UNCHANGED << prd_text, use_llm, call, status, req_vars, rule_vars, enrich_vars, synth_vars,
                  spec_vars, coerce_vars, filegen_vars, text_vars, cache_file, runs >>

\* the cache file is deleted, or overwritten with a text that is not JSON
LoseCache ==
  /\ cache_file.exists
  /\ cache_file' \in {NoFile, BrokenCache} \ {cache_file}
  /\ UNCHANGED << prd_text, use_llm, call, status, req_vars, rule_vars, enrich_vars, synth_vars,
                  spec_vars, coerce_vars, filegen_vars, text_vars, prd_file, runs >>

PipelineNext ==
  \/ RunPipeline
  \/ EditPrd
  \/ LoseCache

PipelineSpec == PipelineInit /\ [][PipelineNext]_vars



(***************************************************************************)
(* Properties                                                              *)
(***************************************************************************)
ReqReturned == call = "extract_requirements" /\ status = "returned"
RulesReturned == call = "extract_rules" /\ status = "returned"
EnrichReturned == call = "enrich_spec" /\ status = "returned"
Synthesis == call = "_llm_prd_to_spec_data"

\* the positions of rs whose acceptance list includes the health assertion
WithHealthAssertion(rs) ==
  { i \in 1..Len(rs) :
      \E k \in 1..Len(rs[i].acceptance) : rs[i].acceptance[k] = JStr(HealthAssertion) }

\* C1: for every PRD text, the list extract_requirements returns holds
\* exactly one requirement whose acceptance includes the health assertion.
C1_ExactlyOneHealthRequirement ==
  ReqReturned => Cardinality(WithHealthAssertion(reqs_out)) = 1

\* C2: in every list extract_requirements returns, in either mode, each id
\* matches ^R-\d{4}$ and no two requirements share an id.
C2_RequirementIdsWellFormedAndUnique ==
  ReqReturned =>
    /\ \A i \in 1..Len(reqs_out) :
         IsStr(reqs_out[i].id) /\ MatchesIdPattern("R-", reqs_out[i].id.v)
    /\ \A i, j \in 1..Len(reqs_out) : i # j => reqs_out[i].id # reqs_out[j].id

\* C3: in heuristic mode the requirement at position i of the returned
\* list has id R- followed by i zero-padded to four digits.
C3_RequirementIdsSequential ==
  (ReqReturned /\ ~use_llm) =>
    \A i \in 1..Len(reqs_out) : reqs_out[i].id = JStr("R-" \o Format04d(i))

\* two requirement records that agree on everything but the id
SameButId(a, b) ==
  /\ a.text = b.text
  /\ a.component = b.component
  /\ a.priority = b.priority
  /\ a.acceptance = b.acceptance

\* the positions of rs that are the first with their lower-cased text
FirstOccurrences(rs) ==
  { i \in 1..Len(rs) : \A j \in 1..(i - 1) : Lower(rs[j].text) # Lower(rs[i].text) }

\* C4: extract_requirements deduplicates by case-insensitive text: no two
\* returned requirements have texts equal ignoring case, the record kept for
\* a text is the first extracted with it, and the kept records are in
\* extraction order.
C4_DeduplicatedFirstWins ==
  ReqReturned =>
    /\ \A i, j \in 1..Len(reqs_out) :
         i # j => Lower(reqs_out[i].text) # Lower(reqs_out[j].text)
    /\ Len(reqs_out) = Cardinality(FirstOccurrences(reqs))
    /\ \A k \in 1..Len(reqs_out) :
         SameButId(reqs_out[k], reqs[Ascending(FirstOccurrences(reqs))[k]])

\* a later record was dropped for a text that differs from the kept one in
\* case only
C4_Witness ==
  /\ ReqReturned
  /\ Len(reqs_out) < Len(reqs)
  /\ \E i, j \in 1..Len(reqs) :
       i < j /\ reqs[i].text # reqs[j].text /\ Lower(reqs[i].text) = Lower(reqs[j].text)

\* C5: in every list extract_rules returns, in either mode, each id matches
\* ^BR-\d{4}$ and no two rules share an id.
C5_RuleIdsWellFormedAndUnique ==
  RulesReturned =>
    /\ \A i \in 1..Len(rules_out) :
         IsStr(rules_out[i]["id"]) /\ MatchesIdPattern("BR-", rules_out[i]["id"].v)
    /\ \A i, j \in 1..Len(rules_out) : i # j => rules_out[i]["id"] # rules_out[j]["id"]

\* the pattern families in the order the specification gives them
Families == << "negation", "enumeration", "comparison", "uniqueness", "non-empty", "equality" >>

FamilyMatches(f, l) ==
  CASE f = "negation"    -> PAT_NEG(l)
    [] f = "enumeration" -> PAT_ENUM(l).ok
    [] f = "comparison"  -> PAT_CMP(l).ok
    [] f = "uniqueness"  -> PAT_UNIQUE(l).ok
    [] f = "non-empty"   -> PAT_NOT_EMPTY(l).ok
    [] f = "equality"    -> PAT_EQ(l).ok

FamilyRule(f, l, n) ==
  CASE f = "negation"    -> rule_neg(l, n)
    [] f = "enumeration" -> rule_enum(PAT_ENUM(l), n)
    [] f = "comparison"  -> rule_cmp(PAT_CMP(l), n)
    [] f = "uniqueness"  -> rule_unique(PAT_UNIQUE(l), n)
    [] f = "non-empty"   -> rule_not_empty(PAT_NOT_EMPTY(l), n)
    [] f = "equality"    -> rule_eq(PAT_EQ(l), n)

\* the families that match line l, as positions of Families
MatchingFamilies(l) ==
  { f \in 1..Len(Families) : l # "" /\ FamilyMatches(Families[f], l) }

\* the stripped lines of the PRD
StrippedOf(ls) == [k \in 1..Len(ls) |-> Strip(ls[k])]

StrippedLines(prd) == StrippedOf(splitlines(prd))

\* the lines of ls that some family matches, in line order
RuleLines(ls) == Ascending({ k \in 1..Len(ls) : MatchingFamilies(ls[k]) # {} })

\* out holds, for the k-th line of rl, the rule of the first family that
\* matches it, numbered k
CascadeOver(ls, rl, out) ==
  /\ Len(out) = Len(rl)
  /\ \A k \in 1..Len(out) :
       /\ out[k] = FamilyRule(Families[FirstIdx(MatchingFamilies(ls[rl[k]]))], ls[rl[k]], k)
       /\ out[k]["id"] = JStr("BR-" \o Format04d(k))

CascadeOf(ls, out) == CascadeOver(ls, RuleLines(ls), out)

\* C6: heuristic rule extraction is a first-match-wins cascade per line: a
\* non-empty line gives at most one rule, built by the first family that
\* matches in the order negation, enumeration, comparison, uniqueness,
\* non-empty, equality; a line no family matches gives nothing; rules are
\* in line order and the k-th has id BR- followed by k on four digits.
C6_FirstMatchCascade ==
  (RulesReturned /\ ~use_llm) => CascadeOf(StrippedLines(prd_text), rules_out)

\* two rules were emitted, one of them for a line that two families match
C6_Witness ==
  /\ RulesReturned /\ ~use_llm
  /\ Len(rules_out) = 2
  /\ \E k \in 1..Len(StrippedLines(prd_text)) :
       Cardinality(MatchingFamilies(StrippedLines(prd_text)[k])) >= 2

\* C7: in every result of enrich_spec some workflow has an action whose text
\* contains "health", ignoring case.
C7_HealthActionPresent ==
  EnrichReturned =>
    \E i \in 1..Len(spec_out.workflows) :
      \E k \in 1..Len(spec_out.workflows[i].actions) :
        Contains(Lower(spec_out.workflows[i].actions[k]), "health")

\* the model call of _llm_rules failed: it raised, its answer does not
\* parse, or the answer holds no usable rule
RuleCallFailed ==
  \/ rule_resp.kind \in {"raise", "unparsable"}
  \/ rule_resp.kind = "json" /\ ~IsList(rule_resp.data)
  \/ /\ rule_resp.kind = "json" /\ IsList(rule_resp.data)
     /\ \A k \in 1..Len(rule_resp.data.v) :
          ~IsObj(rule_resp.data.v[k]) \/ ~Truthy(Get(rule_resp.data.v[k].v, "expr"))

\* C8: in model-assisted mode extract_rules falls back to the heuristic
\* rules on any failure, a raising model call included, and no error
\* reaches the caller.
C8_RulesFallBackOnAnyFailure ==
  (call = "extract_rules" /\ use_llm /\ RuleCallFailed) =>
    status = "returned" /\ rules_out = heuristic_rules(prd_text)

\* C9: in model-assisted mode, when the model call raises or its answer
\* does not parse, extract_requirements returns exactly the list of heuristic
\* mode for the same PRD, and no error reaches the caller.
C9_RequirementsFallBack ==
  (call = "extract_requirements" /\ use_llm /\ req_resp.kind \in {"raise", "unparsable"}) =>
    status = "returned" /\ reqs_out = extract_requirements(prd_text, FALSE, NoCall).out

\* the model call raised and the heuristic list, with a PRD requirement in
\* it, came back
C9_Witness ==
  /\ call = "extract_requirements" /\ use_llm /\ req_resp = Raises
  /\ status = "returned"
  /\ Len(reqs_out) >= 2

\* C10 as stated: at most 3 model calls, and an error is raised only after
\* the third attempt has failed.
C10_RaisesOnlyAfterThirdAttempt ==
  Synthesis =>
    /\ Len(sent) <= 3
    /\ status = "raised" => Len(sent) = 3

\* C10 amended: at most 3 model calls, each re-sending the conversation so
\* far; a result is returned at the first attempt whose answer parses and
\* validates, every earlier attempt having failed, and it validates; the
\* retry-exhaustion error is raised only after three failed attempts; an
\* error of the model call or of the coercion is raised at the attempt where
\* it occurs; no call follows a return or a raise.
C10_BoundedRetries ==
  /\ [](Synthesis =>
          /\ Len(sent) <= 3
          /\ \A k \in 1..Len(sent) : Len(sent[k]) = 2 * k
          /\ status = "returned" =>
               schema_valid(synth_data) /\ Len(msgs) = 2 * Len(sent)
          /\ (status = "raised" /\ synth_error = "RuntimeError") =>
               Len(sent) = 3 /\ Len(msgs) = 8
          /\ (status = "raised" /\ synth_error # "RuntimeError") =>
               synth_error \in {"model call", "coercion"} /\ Len(msgs) = 2 * Len(sent))
  /\ [][(Synthesis /\ status \in {"returned", "raised"}) => sent' = sent]_vars

\* a valid spec came back at the second attempt
C10_Witness ==
  Synthesis /\ status = "returned" /\ Len(sent) = 2

PrdToSpecCalled == call = "prd_to_spec"
CoerceCalled == call = "_coerce_to_schema"

\* the model path of prd_to_spec failed: a model call raised, the coercion
\* raised, or the three attempts were used up
SynthesisFailed == use_llm /\ llm_prd_to_spec_data(pts_resp, prd_text).kind = "raise"

\* C11: when model-assisted synthesis fails (a network failure on any
\* attempt, or retries exhausted), prd_to_spec does not abort: it returns the
\* specification heuristic mode returns for the same PRD.
C11_SynthesisFailureFallsBack ==
  (PrdToSpecCalled /\ SynthesisFailed) =>
    status = "returned" /\ pts_spec = prd_to_spec(prd_text, FALSE, << >>).spec

\* the three attempts were used up on answers that do not parse or validate,
\* and the heuristic spec of a PRD that names the project came back
C11_Witness ==
  /\ PrdToSpecCalled /\ SynthesisFailed
  /\ Len(pts_resp) = MaxAttempts /\ pts_resp[MaxAttempts] # Raises
  /\ status = "returned"
  /\ pts_spec["meta"].v["name"] = JStr("shop-mui")

\* C12: _coerce_to_schema never fails: for every input value it returns a
\* draft without raising.
C12_CoercionNeverFails ==
  CoerceCalled => status = "returned"

\* C13: every draft _coerce_to_schema returns has the nine top-level keys,
\* entities/workflows/requirements sequences, the four other sections
\* records, and backend and frontend records in stacks.
C13_CoercedDraftIsSchemaShaped ==
  (CoerceCalled /\ status = "returned") => schema_valid(coerce_out.data)

\* the four stack tokens prd_to_spec fills, with the default of each
StackDefaults ==
  { << "backend", "framework", "fastapi" >>, << "backend", "lang", "python" >>,
    << "frontend", "framework", "react" >>, << "frontend", "lang", "ts" >> }

\* the value at stacks.section.key of a specification, None when absent
StackValue(spec, section, key) == Get(spec["stacks"].v[section].v, key)

\* the token a value stands for: lower-cased, stripped and mapped through
\* the synonym table; "unspecified" for a value that is missing or empty
TokenOf(x) == IF IsStr(x) /\ Strip(x.v) # "" THEN NormalizeMap(Lower(Strip(x.v))) ELSE "unspecified"

\* C19: in every specification prd_to_spec returns, backend framework and
\* lang and frontend framework and lang are never absent, empty or
\* "unspecified": an unspecified value has become fastapi, python, react
\* and ts respectively, and a specified value is kept, normalized.
C19_StackDefaultsApplied ==
  (PrdToSpecCalled /\ status = "returned") =>
    \A d \in StackDefaults :
      /\ StackValue(pts_spec, d[1], d[2]) \notin {JNull, JStr(""), JStr("unspecified")}
      /\ StackValue(pts_spec, d[1], d[2]) =
           JStr(IF TokenOf(StackValue(pts_draft, d[1], d[2])) = "unspecified" THEN d[3]
                ELSE TokenOf(StackValue(pts_draft, d[1], d[2])))

\* the model named a backend framework, which was kept, and no frontend
\* language, which was defaulted
C19_Witness ==
  /\ PrdToSpecCalled /\ status = "returned" /\ use_llm
  /\ StackValue(pts_draft, "backend", "framework") = JStr("Node.js")
  /\ StackValue(pts_spec, "backend", "framework") = JStr("node")
  /\ StackValue(pts_draft, "frontend", "lang") = JStr("unspecified")
  /\ StackValue(pts_draft, "frontend", "framework") = JNull
  /\ StackValue(pts_spec, "frontend", "framework") = JStr("react")

\* C14: after enrich_spec every entity has pairwise distinct field names, on
\* the heuristic and on the model-assisted path.
C14_FieldNamesUniquePerEntity ==
  EnrichReturned =>
    \A e \in 1..Len(spec_out.entities) :
      \A i, j \in 1..Len(spec_out.entities[e].fields) :
        i # j => spec_out.entities[e].fields[i].name # spec_out.entities[e].fields[j].name

\* the entities the two heuristic patterns find in the PRD
FoundEntities(prd) ==
  inline_entities(entity_matches(prd, Lower(prd), 1)) \o block_entities(heading_blocks(prd, 1))

\* what the model path of enrich_spec yields: the coerced lists of the
\* first answer that loads, nothing when it raised or used up its attempts
ModelYield(llm, r) ==
  IF llm /\ r.kind = "return" THEN [entities |-> r.entities, workflows |-> r.workflows]
  ELSE [entities |-> << >>, workflows |-> << >>]

ModelLists == ModelYield(use_llm, enrich_llm_extract(enrich_resp))

\* C15: the entity list enrich_spec produces is never empty: when neither
\* heuristic pattern finds an entity and the model path yields none, it is
\* exactly the default Customer entity.
C15_EntitiesNeverEmpty ==
  EnrichReturned =>
    /\ spec_out.entities # << >>
    /\ (FoundEntities(prd_text) = << >> /\ ModelLists.entities = << >>) =>
         spec_out.entities = << DefaultCustomer >>

\* the model answered workflows only, the PRD declares no entity, and the
\* default entity came back
C15_Witness ==
  /\ EnrichReturned /\ use_llm
  /\ ModelLists.workflows # << >> /\ ModelLists.entities = << >>
  /\ FoundEntities(prd_text) = << >>
  /\ spec_out.entities = << DefaultCustomer >>

\* C17: for the empty PRD in heuristic mode enrich_spec yields exactly the
\* Customer entity, exactly the health workflow and exactly the synthetic
\* health requirement.
C17_EmptyPrdDefaults ==
  (EnrichReturned /\ ~use_llm /\ prd_text = "") =>
    /\ spec_out.entities = << DefaultCustomer >>
    /\ spec_out.workflows = << Workflow("Health", "http", << "GET /health returns 200 {status:ok}" >>) >>
    /\ spec_out.requirements =
         << Requirement(JStr("R-0001"), HealthText, JStr("backend"), JStr("P0"),
                        << JStr(HealthAssertion) >>) >>

\* enrich_spec returned for the empty PRD in heuristic mode
C17_Witness ==
  /\ EnrichReturned /\ ~use_llm /\ prd_text = ""
  /\ Len(spec_out.workflows) = 1 /\ Len(spec_out.requirements) = 1

\* a target of the form Entity.field: a dot with text on both sides
EntityField(t) == \E i \in 2..(Len(t) - 1) : SubSeq(t, i, i) = "."

\* C18: every rule of heuristic rule extraction has a target of the form
\* Entity.field, whichever family produced it.
C18_RuleTargetsAreEntityField ==
  (RulesReturned /\ ~use_llm) =>
    \A k \in 1..Len(rules_out) :
      IsStr(rules_out[k]["target"]) /\ EntityField(rules_out[k]["target"].v)

\* the workflows of heuristic mode for the PRD
HeuristicFlows(prd) == ensure_health(heuristic_workflows(prd))

\* the per-category fallback on the model's lists m
FallsBackPerCategory(m, prd, out) ==
  /\ (m.entities # << >> /\ m.workflows = << >>) =>
       out.entities = m.entities /\ out.workflows = HeuristicFlows(prd)
  /\ (m.entities = << >> /\ m.workflows # << >>) =>
       out.entities = heuristic_entities(prd) /\ out.workflows = ensure_health(m.workflows)
  /\ (m.entities = << >> /\ m.workflows = << >>) =>
       out.entities = heuristic_entities(prd) /\ out.workflows = HeuristicFlows(prd)

\* C20: model-assisted extraction falls back per category: model entities
\* with no model workflows give the model's entities and the heuristic
\* workflows (the health workflow ensured, as in heuristic mode), and
\* symmetrically; a model path that raises or fails on all three attempts
\* gives the heuristic output in both categories.
C20_FallsBackPerCategory ==
  (EnrichReturned /\ use_llm) => FallsBackPerCategory(ModelLists, prd_text, spec_out)

\* the model gave entities and no workflow for a PRD that states a workflow
C20_Witness ==
  /\ EnrichReturned /\ use_llm
  /\ ModelLists.entities # << >> /\ ModelLists.workflows = << >>
  /\ heuristic_workflows(prd_text) # << >>
  /\ spec_out.entities = ModelLists.entities

ResolverReturned == call = "_find_entity_by_name"

\* the irregular plurals the specification lists, singular first
IrregularPlurals ==
  { << "person", "people" >>, << "child", "children" >>, << "foot", "feet" >>,
    << "tooth", "teeth" >>, << "mouse", "mice" >>, << "man", "men" >>, << "woman", "women" >> }

\* the three rules between an entity name a and a candidate b, in lower case
ExactRule(a, b) == a = b
TrailingSRule(a, b) == a = b \o "s" \/ b = a \o "s"
IrregularRule(a, b) == << a, b >> \in IrregularPlurals \/ << b, a >> \in IrregularPlurals
EitherPluralRule(a, b) == TrailingSRule(a, b) \/ IrregularRule(a, b)

\* the first entity of es whose name satisfies rule with the candidate, 0
\* when none does
FirstBy(rule(_, _), es, name) ==
  FirstIdx({ i \in 1..Len(es) : rule(Lower(es[i].name), Lower(name)) })

ResultAt(es, i) == IF i = 0 THEN NoEntity ELSE Found(es[i])

\* C16: the resolver applies its rules in the stated order over the whole
\* list: the first entity with an equal name ignoring case; otherwise the
\* first one matching by a trailing s; otherwise the first one matching by
\* the irregular plurals; none when no entity matches.
C16_RulesInStatedOrder ==
  ResolverReturned =>
    find_result =
      ResultAt(find_entities,
               IF FirstBy(ExactRule, find_entities, find_name) # 0
               THEN FirstBy(ExactRule, find_entities, find_name)
               ELSE IF FirstBy(TrailingSRule, find_entities, find_name) # 0
               THEN FirstBy(TrailingSRule, find_entities, find_name)
               ELSE FirstBy(IrregularRule, find_entities, find_name))

\* C16, as the code has it: the first entity with an equal name ignoring
\* case; otherwise the first entity that matches by a trailing s or by the
\* irregular plurals, whichever of the two rules it is; none when no entity
\* matches.
C16_ExactThenFirstPlural ==
  ResolverReturned =>
    find_result =
      ResultAt(find_entities,
               IF FirstBy(ExactRule, find_entities, find_name) # 0
               THEN FirstBy(ExactRule, find_entities, find_name)
               ELSE FirstBy(EitherPluralRule, find_entities, find_name))

\* an entity that matches by the irregular plurals was returned although a
\* later one matches by a trailing s
C16_Witness ==
  /\ ResolverReturned
  /\ FirstBy(ExactRule, find_entities, find_name) = 0
  /\ FirstBy(IrregularRule, find_entities, find_name) = 1
  /\ FirstBy(TrailingSRule, find_entities, find_name) = 2
  /\ find_result = Found(find_entities[1])

\* where attempt j of the synthesis failed: in parsing the answer, or in
\* validating the coerced answer
FailedParsing(j) == synth_resp[j].kind = "unparsable"

\* C24: the conversation accumulates across the attempts of the synthesis
\* loop: call k (k = 1..3) is sent the 2 initial messages followed, for each
\* earlier attempt in order, by 2 messages: the assistant's prior answer (the
\* raw one after a parsing failure, the coerced one after a validation
\* failure) and one user instruction naming that failure.
C24_ContextAccumulates ==
  Synthesis =>
    \A k \in 1..Len(sent) :
      /\ Len(sent[k]) = 2 + 2 * (k - 1)
      /\ SubSeq(sent[k], 1, 2) = InitialMessages
      /\ \A j \in 1..(k - 1) :
           /\ sent[k][2 * j + 1] =
                Message("assistant", IF FailedParsing(j) THEN "raw answer" ELSE "coerced answer")
           /\ sent[k][2 * j + 2] =
                Message("user", IF FailedParsing(j) THEN "Not valid JSON" ELSE "Validation failed")

\* the third call was sent both kinds of correction: the first answer did
\* not parse, the second did not validate
C24_Witness ==
  /\ Synthesis
  /\ Len(sent) = 3
  /\ FailedParsing(1)
  /\ ~FailedParsing(2)
  /\ Len(sent[3]) = 6

\* the stack slots the heuristic fills, each with the words it looks for and
\* the value it has when none of them occurs
StackSlots ==
  { [section |-> "backend", key |-> "framework", words |-> BackendFrameworks, none |-> "fastapi"],
    [section |-> "backend", key |-> "lang", words |-> BackendLangs, none |-> "python"],
    [section |-> "frontend", key |-> "framework", words |-> FrontendFrameworks, none |-> "react"],
    [section |-> "frontend", key |-> "lang", words |-> FrontendLangs, none |-> "ts"],
    [section |-> "database", key |-> "type", words |-> DatabaseTypes, none |-> "unspecified"],
    [section |-> "infra", key |-> "orchestrator", words |-> Orchestrators, none |-> "unspecified"],
    [section |-> "infra", key |-> "cloud", words |-> Clouds, none |-> "unspecified"] }

\* the words of ws that occur in the lower-cased text t as whole words
NamedIn(ws, t) == { w \in ws : \E i \in 1..Len(t) : WordAt(t, i, w) }

\* the slot holds the token of a technology the text names; its default or
\* "unspecified" when the text names none
SlotReflects(spec, slot, named) ==
  IF named # {}
  THEN StackValue(spec, slot.section, slot.key) \in { JStr(NormalizeMap(w)) : w \in named }
  ELSE StackValue(spec, slot.section, slot.key) \in { JStr(slot.none), JStr("unspecified") }

\* C30: in heuristic mode the stack slots of the specification prd_to_spec
\* returns reflect the PRD: a slot for which the text names a recognised
\* technology holds the normalized token of one named, and a slot is
\* "unspecified" or the default only when the text names none.
C30_StackDetectionReflectsPrd ==
  (PrdToSpecCalled /\ ~use_llm /\ status = "returned") =>
    \A slot \in StackSlots :
      SlotReflects(pts_spec, slot, NamedIn(slot.words, Lower(prd_text)))

OverlapReturned == call = "_token_overlap"

\* the distinct stems of the tokens of s: a token is a maximal run of
\* letters, digits and "_" of the lower-cased string
StemsOf(s, stem) ==
  { stem[SubSeq(s, i, j)] :
      << i, j >> \in { p \in (1..Len(s)) \X (1..Len(s)) :
                        /\ p[1] <= p[2]
                        /\ \A k \in p[1]..p[2] : Ch(s, k) \in WordSet
                        /\ Ch(s, p[1] - 1) \notin WordSet
                        /\ Ch(s, p[2] + 1) \notin WordSet } }

\* r is the ratio n / d
IsRatio(r, n, d) == r.den > 0 /\ r.num * d = n * r.den

OverlapIs(r, name_stems, text_stems) ==
  /\ r.den > 0 /\ 0 <= r.num /\ r.num <= r.den
  /\ IF name_stems = {} THEN r.num = 0
     ELSE IsRatio(r, Cardinality(name_stems \cap text_stems), Cardinality(name_stems))

\* C21: _token_overlap returns a ratio in [0,1]: the number of distinct
\* name stems that occur among the text stems, divided by the number of
\* distinct name stems; 0 when the name has no tokens.
C21_OverlapIsShareOfNameStems ==
  OverlapReturned =>
    OverlapIs(overlap_out, StemsOf(Lower(overlap_in.name), overlap_in.stem),
              StemsOf(Lower(overlap_in.text), overlap_in.stem))

\* two of the name's three tokens share a stem, which the text has as well,
\* and the other stem does not occur in the text: the ratio is 1/2
C21_Witness ==
  /\ OverlapReturned
  /\ overlap_in.name = "order total items"
  /\ overlap_in.text = "ORDER"
  /\ overlap_in.stem["order"] = overlap_in.stem["total"]
  /\ overlap_in.stem["items"] # overlap_in.stem["order"]
  /\ overlap_out = Ratio(1, 2)

SanitizeReturned == call = "_sanitize_text"

\* C22: _sanitize_text is idempotent: sanitizing its result gives the
\* result back.
C22_SanitizeIdempotent ==
  SanitizeReturned => sanitize_text(san_out) = san_out

\* a string that lost a zero-width character and the white space around it
\* and had its smart quote replaced
C22_Witness ==
  /\ SanitizeReturned
  /\ san_in = << 8203, 32, 8216 >>
  /\ san_out = << 39 >>

BlockReturned == call = "_extract_structured_block"

\* the fenced blocks of a text, a block's tag being what stands on the line
\* of its opening fence
FencedBlocks(text) == fence_blocks(text, 1, {" ", "\t"})

TaggedBodies(blocks, langs) ==
  { blocks[i].body : i \in { k \in 1..Len(blocks) : Lower(blocks[k].lang) \in langs } }

LongestBodies(blocks) ==
  { blocks[i].body :
      i \in { k \in 1..Len(blocks) : \A j \in 1..Len(blocks) : Len(blocks[j].body) <= Len(blocks[k].body) } }

SelectedByPolicy(text, blocks, out) ==
  IF blocks = << >> THEN out = text
  ELSE IF TaggedBodies(blocks, {"yaml", "yml"}) # {} THEN out \in TaggedBodies(blocks, {"yaml", "yml"})
  ELSE IF TaggedBodies(blocks, {"json"}) # {} THEN out \in TaggedBodies(blocks, {"json"})
  ELSE out \in LongestBodies(blocks)

\* C23: _extract_structured_block selects by the stated policy: the body of
\* a YAML-tagged block if there is one; else the body of a JSON-tagged
\* block if there is one; else the body of the longest fenced block; and
\* the entire input unchanged when the text has no fenced block.
C23_SelectsByPolicy ==
  BlockReturned => SelectedByPolicy(block_in, FencedBlocks(block_in), block_out)

FilesGenerated == call = "generate_files"

\* C25: generate_files renders every planned file: for each entry of the
\* plan spec_to_fileplan produced, whatever the number of entities and
\* workflows, a file is written at that path under the output directory and
\* the path is a key of the returned mapping.
C25_EveryPlannedFileRendered ==
  FilesGenerated =>
    \A k \in 1..Len(gen_plan) :
      gen_plan[k].path \in gen_disk /\ gen_plan[k].path \in DOMAIN gen_files

\* the name fragment generate_files derives from the route path planned for
\* the entity named name
RouteFragment(name) == route_base(path_stem(route_path(Lower(name))))

\* C27: the planner and the generator agree on entity routes: for every
\* entity E of the specification, whatever its name ends in, the fragment
\* derived from the route path planned for E resolves to an entity named E,
\* and the route file written for E is rendered from it, not the placeholder.
C27_RouteRoundTrip ==
  FilesGenerated =>
    \A k \in 1..Len(gen_spec["entities"]) :
      LET E == gen_spec["entities"][k]
      IN  route_path(Lower(E.name)) \in DOMAIN gen_files =>
            /\ find_entity_by_name(gen_spec["entities"], RouteFragment(E.name)) = Found(E)
            /\ gen_files[route_path(Lower(E.name))] = Rendered("route", E.name)

\* the keys enrich_spec assigns
ReplacedKeys == {"entities", "workflows", "requirements", "business_rules"}

\* C26: enrich_spec frames its effect: the returned specification holds the
\* entities and workflows of this call's extraction and the requirements
\* and business rules computed from the PRD text by this call, whatever the
\* input held; every other top-level key equals the input's; and the
\* specification object passed in is left as it was.
C26_EnrichFramesItsEffect ==
  EnrichReturned =>
    /\ spec_in \in SpecInputs
    /\ DOMAIN spec_out = DOMAIN spec_in \cup ReplacedKeys
    /\ \A k \in DOMAIN spec_in \ ReplacedKeys : spec_out[k] = spec_in[k]
    /\ spec_out["entities"] = enrich_entities_workflows(prd_text, use_llm, enrich_resp).entities
    /\ spec_out["workflows"] = enrich_entities_workflows(prd_text, use_llm, enrich_resp).workflows
    /\ spec_out["requirements"] = extract_requirements(prd_text, use_llm, req_resp).out
    /\ spec_out["business_rules"] = extract_rules(prd_text, use_llm, rule_resp).out

C26_Witness ==
  /\ EnrichReturned
  /\ spec_in = FullSpec
  /\ spec_out["requirements"] # FullSpec["requirements"]
  /\ spec_out["requirements"] # << >>
  /\ spec_out["business_rules"] # FullSpec["business_rules"]
  /\ spec_out["entities"] # FullSpec["entities"]
  /\ spec_out["ci_cd"] = FullSpec["ci_cd"]

PipelineReturned == call = "pipeline" /\ status = "returned"

\* C28: for every specification produced by prd_to_spec followed by
\* enrich_spec, the file plan spec_to_fileplan returns has no two entries
\* with the same path.
C28_NoDuplicatePlanPaths ==
  PipelineReturned =>
    \A i, j \in 1..Len(gen_plan) : gen_plan[i].path = gen_plan[j].path => i = j

\* C29: in every run of the pipeline the specification handed to the file
\* planner is the one prd_to_spec and enrich_spec produce for the PRD text
\* read in that run, also when a cache file is found and the PRD file has
\* changed since it was written.
C29_SpecOfCurrentPrd ==
  PipelineReturned => gen_spec = derived_spec(prd_text).spec

====
